---------------------------- MODULE Spec2Model ----------------------------
(***************************************************************************)
(* A model of the preference resolution and flight ranking engine of the   *)
(* travel assistant backend (src/server): the pattern extractor, the       *)
(* canonicalizer, the structured preference store, the resolver, the       *)
(* search parameter compiler and the flight tagger.                        *)
(*                                                                         *)
(* Texts.  A text is a sequence of words, the text split at blanks.  The   *)
(* pseudo-word " " stands for surplus white space, which str.strip()       *)
(* removes at both ends.  The code's tests `kw in text.lower()` are        *)
(* decided word by word from the tables LowerWord, SubWords, SufWords and  *)
(* PreWords, which tabulate str.lower() and Python's substring, suffix     *)
(* and prefix tests for every word of Vocabulary.                          *)
(***************************************************************************)
EXTENDS Integers, Sequences, FiniteSets, TLC

VARIABLES
  prefs,      \* the rows of the preferences table (PreferenceModel)
  clock,      \* datetime.now(), as a logical clock; also numbers the rows
  op,         \* the operation performed last and what it returned
  latest,     \* history: per (user, type), the id of the row written last
  bookings,   \* the rows of the bookings table (BookingModel)
  pc,         \* concurrent add_preference calls: each caller's position
  job,        \* concurrent add_preference calls: each caller's arguments
  phrase,     \* canonicalizer: the input phrase
  canon,      \* canonicalizer: the results of one and of two applications
  message,    \* chat: the user's message
  extracted,  \* chat: the path taken, the labels extracted and those persisted
  fuzzy,      \* the fuzzy memory's search results for the user
  ui,         \* the request's current UI preferences
  args,       \* the arguments of the search_flights tool call
  resolved,   \* what summarize / overrides / the tool call produced
  offers,     \* the offers handed to the tagger
  tagged,     \* the tagger's result
  fetched,    \* the offers of a flight search, before they are filtered
  wanted,     \* the user_preferences of the flight search
  outcome,    \* what the flight search returns
  upstream,   \* search_flights tool: what the flight search collaborator gave
  reply       \* search_flights tool: what the tool call returns

vars == <<prefs, clock, op, latest, bookings, pc, job, phrase, canon, message, extracted,
          fuzzy, ui, args, resolved, offers, tagged, fetched, wanted, outcome,
          upstream, reply>>

\* ---- begin word tables
(* The words a text of the model is made of. *)
Vocabulary ==
  {"Cabin", "class:", "Premium", "Economy", "Business", "First", "Trip", "type:",
   "One-way", "Round", "trip", "Stops:", "Direct", "only", "Avoid", "layovers",
   "Layovers", "OK", "Departure", "time:", "morning", "Morning", "afternoon", "Afternoon",
   "evening", "Evening", "Red-eye:", "Prefer", "to", "avoid", "Seat:", "Window",
   "Aisle", "Exit", "row", "middle", "Baggage:", "Carry-on", "Checked", "bag",
   "Extra", "baggage", "Travel:", "Solo", "With", "family", "partner", "I",
   "prefer", "class", "flights", "Class", "window/aisle/exit", "seats", "preferred", "airline",
   "departure", "time", "direct", "non-stop", "willing", "take", "traveling", "alone",
   "with", "light", "packer", "extra", "needed", "carry-on", "budget", "conscious",
   "red-eye", "Travel", "Preference:", "x", "(Type:", "cabin_class)", "general", "-",
   "passenger)", "departure_time)", "i", "hate", "but", "love", "i'm", "on",
   "a", "tight", "looking", "for", "cheap", "as", "possible", "cheapest",
   "budget-friendly", "friendly", "budget-conscious", "like", "fly", "in", "the", "evenings",
   "want", "mornings", "don't", "flying", "do", "not", "dont", "mind",
   "late", "departures", "early", "afternoons", "find", "search", "show", "book",
   "get", "from", "JFK", "LAX", "please", "need", "premium", "economy",
   "business", "first", "cabin", "one", "way", "one-way", "round-trip", "return",
   "nonstop", "layover", "stopover", "stops", "no", "without", "ok", "okay",
   "fine", "never", "red", "eye", "redeye", "window", "seat", "aisle",
   "exit", "center", "checked", "kids", "children", "spouse", "solo", "Delta",
   "delta", "united", "luxury", "travel", "style", "User", "booked", "searched",
   "traveled", "Prefers", "Likes", "flight", "my", "preferences", "what", "are",
   "delete", "forget", "all", "everything", "2", "couple", "luggage", "carrier",
   "minimal", "significant", "other", "some", "multiple", "require", "american", "southwest",
   "up", "look", "pull", "current", "list", "tell", "preference", "remove",
   "clear", "wipe", "reset", "→", "5pm", "USD", "420", "General)",
   "home", "is", "Houston", "max", "price", "500", "Preference", "Type:",
   "United", "Yes", "yes", "True", "true", "1"}

LowerWordTable ==
  [w \in Vocabulary |->
     CASE w = "Cabin" -> "cabin"
       [] w = "Premium" -> "premium"
       [] w = "Economy" -> "economy"
       [] w = "Business" -> "business"
       [] w = "First" -> "first"
       [] w = "Trip" -> "trip"
       [] w = "One-way" -> "one-way"
       [] w = "Round" -> "round"
       [] w = "Stops:" -> "stops:"
       [] w = "Direct" -> "direct"
       [] w = "Avoid" -> "avoid"
       [] w = "Layovers" -> "layovers"
       [] w = "OK" -> "ok"
       [] w = "Departure" -> "departure"
       [] w = "Morning" -> "morning"
       [] w = "Afternoon" -> "afternoon"
       [] w = "Evening" -> "evening"
       [] w = "Red-eye:" -> "red-eye:"
       [] w = "Prefer" -> "prefer"
       [] w = "Seat:" -> "seat:"
       [] w = "Window" -> "window"
       [] w = "Aisle" -> "aisle"
       [] w = "Exit" -> "exit"
       [] w = "Baggage:" -> "baggage:"
       [] w = "Carry-on" -> "carry-on"
       [] w = "Checked" -> "checked"
       [] w = "Extra" -> "extra"
       [] w = "Travel:" -> "travel:"
       [] w = "Solo" -> "solo"
       [] w = "With" -> "with"
       [] w = "I" -> "i"
       [] w = "Class" -> "class"
       [] w = "Travel" -> "travel"
       [] w = "Preference:" -> "preference:"
       [] w = "(Type:" -> "(type:"
       [] w = "JFK" -> "jfk"
       [] w = "LAX" -> "lax"
       [] w = "Delta" -> "delta"
       [] w = "User" -> "user"
       [] w = "Prefers" -> "prefers"
       [] w = "Likes" -> "likes"
       [] w = "USD" -> "usd"
       [] w = "General)" -> "general)"
       [] w = "Houston" -> "houston"
       [] w = "Preference" -> "preference"
       [] w = "Type:" -> "type:"
       [] w = "United" -> "united"
       [] w = "Yes" -> "yes"
       [] w = "True" -> "true"
       [] OTHER -> w]

(* str.lower() of a word. *)
LowerWord(w) == IF w \in Vocabulary THEN LowerWordTable[w] ELSE w

(* The lower-case words. *)
LowerVocabulary == {LowerWord(w) : w \in Vocabulary}

SubWordsTable ==
  [w \in LowerVocabulary |->
     CASE w = "2" -> {"2"}
       [] w = "420" -> {"2"}
       [] w = "5pm" -> {"pm"}
       [] w = "afternoon" -> {"afternoon"}
       [] w = "afternoons" -> {"afternoon"}
       [] w = "airline" -> {"airline"}
       [] w = "aisle" -> {"aisle"}
       [] w = "alone" -> {"alone"}
       [] w = "american" -> {"am", "american"}
       [] w = "avoid" -> {"avoid"}
       [] w = "bag" -> {"bag"}
       [] w = "baggage" -> {"bag", "baggage"}
       [] w = "baggage:" -> {"bag", "baggage", "baggage:"}
       [] w = "book" -> {"ok"}
       [] w = "booked" -> {"booked", "ok"}
       [] w = "budget" -> {"budget"}
       [] w = "budget-conscious" -> {"budget", "budget-conscious"}
       [] w = "budget-friendly" -> {"budget"}
       [] w = "business" -> {"business"}
       [] w = "cabin" -> {"cabin"}
       [] w = "cabin_class)" -> {"cabin", "class"}
       [] w = "carrier" -> {"carrier"}
       [] w = "carry-on" -> {"carry-on"}
       [] w = "center" -> {"center"}
       [] w = "checked" -> {"checked"}
       [] w = "children" -> {"children"}
       [] w = "class" -> {"class"}
       [] w = "class:" -> {"class"}
       [] w = "couple" -> {"couple"}
       [] w = "delta" -> {"delta"}
       [] w = "departure" -> {"depart", "departure"}
       [] w = "departure_time)" -> {"depart", "departure"}
       [] w = "departures" -> {"depart", "departure"}
       [] w = "direct" -> {"direct"}
       [] w = "economy" -> {"economy"}
       [] w = "evening" -> {"evening"}
       [] w = "evenings" -> {"evening"}
       [] w = "eye" -> {"eye"}
       [] w = "family" -> {"am", "family"}
       [] w = "fine" -> {"fine"}
       [] w = "first" -> {"first"}
       [] w = "flights" -> {"flights"}
       [] w = "from" -> {"from"}
       [] w = "general" -> {"general"}
       [] w = "general)" -> {"general"}
       [] w = "hate" -> {"hate"}
       [] w = "home" -> {"home"}
       [] w = "houston" -> {"houston"}
       [] w = "kids" -> {"kids"}
       [] w = "layover" -> {"layover"}
       [] w = "layovers" -> {"layover"}
       [] w = "look" -> {"ok"}
       [] w = "looking" -> {"ok"}
       [] w = "luggage" -> {"luggage"}
       [] w = "luxury" -> {"luxury"}
       [] w = "middle" -> {"middle"}
       [] w = "morning" -> {"morning"}
       [] w = "mornings" -> {"morning"}
       [] w = "never" -> {"never"}
       [] w = "non-stop" -> {"non-stop", "stop"}
       [] w = "nonstop" -> {"nonstop", "stop"}
       [] w = "ok" -> {"ok"}
       [] w = "okay" -> {"ok", "okay"}
       [] w = "one-way" -> {"one-way"}
       [] w = "preferred" -> {"red"}
       [] w = "premium" -> {"premium"}
       [] w = "price" -> {"price"}
       [] w = "red" -> {"red"}
       [] w = "red-eye" -> {"eye", "red", "red-eye"}
       [] w = "red-eye:" -> {"eye", "red", "red-eye", "red-eye:"}
       [] w = "redeye" -> {"eye", "red", "redeye"}
       [] w = "return" -> {"return"}
       [] w = "round-trip" -> {"round-trip"}
       [] w = "searched" -> {"searched"}
       [] w = "seat" -> {"seat"}
       [] w = "seat:" -> {"seat", "seat:"}
       [] w = "seats" -> {"seat"}
       [] w = "solo" -> {"solo"}
       [] w = "southwest" -> {"southwest"}
       [] w = "spouse" -> {"spouse"}
       [] w = "stopover" -> {"stop", "stopover"}
       [] w = "stops" -> {"stop", "stops"}
       [] w = "stops:" -> {"stop", "stops", "stops:"}
       [] w = "travel:" -> {"travel:"}
       [] w = "traveled" -> {"traveled"}
       [] w = "united" -> {"united"}
       [] w = "willing" -> {"willing"}
       [] w = "window" -> {"window"}
       [] w = "window/aisle/exit" -> {"aisle", "window"}
       [] w = "without" -> {"without"}
       [] w = "→" -> {"→"}
       [] OTHER -> {}]

(* The one-word keywords that are substrings of the lower-case word w. *)
SubWords(w) == IF w \in LowerVocabulary THEN SubWordsTable[w] ELSE {}

SufWordsTable ==
  [w \in LowerVocabulary |->
     CASE w = "alone" -> {"one"}
       [] w = "cabin" -> {"cabin"}
       [] w = "departure" -> {"departure"}
       [] w = "do" -> {"do"}
       [] w = "don't" -> {"don't"}
       [] w = "dont" -> {"dont"}
       [] w = "exit" -> {"exit"}
       [] w = "extra" -> {"extra"}
       [] w = "family" -> {"family"}
       [] w = "fly" -> {"fly"}
       [] w = "no" -> {"no"}
       [] w = "one" -> {"one"}
       [] w = "preferred" -> {"red"}
       [] w = "premium" -> {"premium"}
       [] w = "red" -> {"red"}
       [] w = "round" -> {"round"}
       [] w = "round-trip" -> {"trip"}
       [] w = "travel" -> {"travel"}
       [] w = "travel:" -> {"travel:"}
       [] w = "traveling" -> {"traveling"}
       [] w = "trip" -> {"trip"}
       [] w = "user" -> {"user"}
       [] w = "window/aisle/exit" -> {"exit"}
       [] w = "with" -> {"with"}
       [] OTHER -> {}]

(* The first words of several-word keywords that the lower-case word w ends with. *)
SufWords(w) == IF w \in LowerVocabulary THEN SufWordsTable[w] ELSE {}

PreWordsTable ==
  [w \in LowerVocabulary |->
     CASE w = "alone" -> {"alone"}
       [] w = "baggage" -> {"baggage"}
       [] w = "baggage:" -> {"baggage"}
       [] w = "booked" -> {"booked"}
       [] w = "children" -> {"children"}
       [] w = "economy" -> {"economy"}
       [] w = "eye" -> {"eye"}
       [] w = "family" -> {"family"}
       [] w = "kids" -> {"kids"}
       [] w = "like" -> {"like"}
       [] w = "likes" -> {"like"}
       [] w = "mind" -> {"mind"}
       [] w = "partner" -> {"partner"}
       [] w = "row" -> {"row"}
       [] w = "searched" -> {"searched"}
       [] w = "solo" -> {"solo"}
       [] w = "spouse" -> {"spouse"}
       [] w = "time:" -> {"time:"}
       [] w = "traveled" -> {"traveled"}
       [] w = "trip" -> {"trip"}
       [] w = "type:" -> {"type:"}
       [] w = "way" -> {"way"}
       [] OTHER -> {}]

(* The last words of several-word keywords that the lower-case word w starts with. *)
PreWords(w) == IF w \in LowerVocabulary THEN PreWordsTable[w] ELSE {}

CasedSubWordsTable ==
  [w \in Vocabulary |->
     CASE w = "USD" -> {"USD"}
       [] OTHER -> {}]

(* The one-word cased keywords that are substrings of the word w. *)
CasedSubWords(w) == IF w \in Vocabulary THEN CasedSubWordsTable[w] ELSE {}

CasedSufWordsTable ==
  [w \in Vocabulary |->
     CASE w = "Travel" -> {"Travel"}
       [] w = "(Type:" -> {"Type:"}
       [] w = "Type:" -> {"Type:"}
       [] OTHER -> {}]

(* The first words of several-word cased keywords that the word w ends with. *)
CasedSufWords(w) == IF w \in Vocabulary THEN CasedSufWordsTable[w] ELSE {}

CasedPreWordsTable ==
  [w \in Vocabulary |->
     CASE w = "General)" -> {"General"}
       [] w = "Type:" -> {"Type:"}
       [] OTHER -> {}]

(* The last words of several-word cased keywords that the word w starts with. *)
CasedPreWords(w) == IF w \in Vocabulary THEN CasedPreWordsTable[w] ELSE {}

ReExactTable ==
  [w \in LowerVocabulary |->
     CASE w = "1" -> {"(?:one|1|multiple|some)", "\\w+"}
       [] w = "2" -> {"\\w+"}
       [] w = "420" -> {"\\w+"}
       [] w = "500" -> {"\\w+"}
       [] w = "5pm" -> {"\\w+"}
       [] w = "a" -> {"a", "\\w+"}
       [] w = "afternoon" -> {"afternoons?\\b", "afternoon", "(?:early|late|morning|afternoon|evening)", "\\w+"}
       [] w = "afternoons" -> {"afternoons?\\b", "\\w+"}
       [] w = "airline" -> {"\\w+"}
       [] w = "aisle" -> {"(?:window|aisle)", "\\w+"}
       [] w = "all" -> {"[a-z]{3}", "\\w+"}
       [] w = "alone" -> {"(?:alone|solo)", "\\w+"}
       [] w = "american" -> {"(?:united|american|delta|southwest|jetblue|alaska|spirit|frontier)", "\\w+"}
       [] w = "are" -> {"[a-z]{3}", "\\w+"}
       [] w = "as" -> {"\\bas", "as", "\\w+"}
       [] w = "avoid" -> {"(?:hate|avoid)", "(?:avoid|hate)", "(?:no|avoid|hate)", "(?:no|avoid)", "\\w+"}
       [] w = "bag" -> {"[a-z]{3}", "\\w+"}
       [] w = "baggage" -> {"baggage", "\\w+"}
       [] w = "book" -> {"\\b(?:find|search|show|book|get|lookup|pullup)\\b", "\\w+"}
       [] w = "booked" -> {"\\w+"}
       [] w = "budget" -> {"budget\\b", "\\bbudget", "\\w+"}
       [] w = "budget-conscious" -> {"\\bbudget-?conscious\\b"}
       [] w = "budget-friendly" -> {"\\bbudget-?friendly\\b"}
       [] w = "business" -> {"\\bbusiness\\b", "\\w+"}
       [] w = "but" -> {"[a-z]{3}", "\\w+"}
       [] w = "cabin" -> {"cabin", "\\w+"}
       [] w = "carrier" -> {"\\w+"}
       [] w = "center" -> {"(?:middle|center)", "\\w+"}
       [] w = "cheap" -> {"cheap", "\\w+"}
       [] w = "cheapest" -> {"\\bcheapest", "\\w+"}
       [] w = "checked" -> {"(?:extra|checked)", "\\w+"}
       [] w = "children" -> {"(?:family|kids|children)", "\\w+"}
       [] w = "class" -> {"\\w+"}
       [] w = "clear" -> {"\\b(?:forget|delete|remove|clear|wipe|reset)\\b", "\\w+"}
       [] w = "conscious" -> {"conscious\\b", "\\w+"}
       [] w = "couple" -> {"\\w+"}
       [] w = "current" -> {"\\b(?:my|current)\\b", "\\w+"}
       [] w = "delete" -> {"\\b(?:forget|delete|remove|clear|wipe|reset)\\b", "\\w+"}
       [] w = "delta" -> {"(?:united|american|delta|southwest|jetblue|alaska|spirit|frontier)", "\\w+"}
       [] w = "departure" -> {"departures?", "\\w+"}
       [] w = "departures" -> {"departures?", "\\w+"}
       [] w = "direct" -> {"direct", "\\w+"}
       [] w = "do" -> {"do", "\\w+"}
       [] w = "don't" -> {"don'?t", "don't"}
       [] w = "dont" -> {"don'?t", "\\w+"}
       [] w = "early" -> {"early", "(?:early|late|morning|afternoon|evening)", "\\w+"}
       [] w = "economy" -> {"economy", "\\beconomy\\b", "\\w+"}
       [] w = "evening" -> {"evenings?\\b", "evening", "(?:early|late|morning|afternoon|evening)", "\\w+"}
       [] w = "evenings" -> {"evenings?\\b", "\\w+"}
       [] w = "everything" -> {"\\w+"}
       [] w = "exit" -> {"exit", "\\w+"}
       [] w = "extra" -> {"(?:extra|checked)", "\\w+"}
       [] w = "eye" -> {"-?eye", "[a-z]{3}", "\\w+"}
       [] w = "family" -> {"(?:family|kids|children)", "\\w+"}
       [] w = "find" -> {"(?:find|want|need)", "\\b(?:find|search|show|book|get|lookup|pullup)\\b", "\\w+"}
       [] w = "fine" -> {"\\w+"}
       [] w = "first" -> {"\\bfirst\\b", "\\w+"}
       [] w = "flight" -> {"flights?", "\\w+", "flight"}
       [] w = "flights" -> {"flights?", "(?:only|flights|preferred)", "\\w+"}
       [] w = "fly" -> {"(?:fly|flying)", "(?:prefer|fly|love)", "[a-z]{3}", "\\w+"}
       [] w = "flying" -> {"flying", "(?:fly|flying)", "\\w+"}
       [] w = "for" -> {"for", "[a-z]{3}", "\\w+"}
       [] w = "forget" -> {"\\b(?:forget|delete|remove|clear|wipe|reset)\\b", "\\w+"}
       [] w = "friendly" -> {"friendly\\b", "\\w+"}
       [] w = "from" -> {"\\bfrom\\b", "from", "\\w+"}
       [] w = "general" -> {"\\w+"}
       [] w = "get" -> {"\\b(?:find|search|show|book|get|lookup|pullup)\\b", "[a-z]{3}", "\\w+"}
       [] w = "hate" -> {"(?:hate|avoid)", "(?:avoid|hate)", "(?:no|avoid|hate)", "\\w+"}
       [] w = "home" -> {"\\w+"}
       [] w = "houston" -> {"\\w+"}
       [] w = "i" -> {"i", "\\w+"}
       [] w = "in" -> {"in", "\\bin", "\\w+"}
       [] w = "is" -> {"\\w+"}
       [] w = "jfk" -> {"[a-z]{3}", "\\w+"}
       [] w = "kids" -> {"(?:family|kids|children)", "\\w+"}
       [] w = "late" -> {"late", "(?:early|late|morning|afternoon|evening)", "\\w+"}
       [] w = "lax" -> {"[a-z]{3}", "\\w+"}
       [] w = "layover" -> {"layovers?", "\\w+"}
       [] w = "layovers" -> {"layovers?", "\\w+"}
       [] w = "light" -> {"light", "\\w+"}
       [] w = "like" -> {"like", "(?:prefer|like|love|want)", "\\w+"}
       [] w = "likes" -> {"\\w+"}
       [] w = "list" -> {"\\b(?:what|show|list|tell)\\b", "\\w+"}
       [] w = "look" -> {"\\blook", "\\w+"}
       [] w = "looking" -> {"\\w+"}
       [] w = "love" -> {"(?:prefer|like|love|want)", "(?:prefer|fly|love)", "\\w+"}
       [] w = "luggage" -> {"\\w+"}
       [] w = "luxury" -> {"\\w+"}
       [] w = "max" -> {"[a-z]{3}", "\\w+"}
       [] w = "middle" -> {"(?:middle|center)", "\\w+"}
       [] w = "mind" -> {"mind", "\\w+"}
       [] w = "minimal" -> {"minimal", "\\w+"}
       [] w = "morning" -> {"mornings?\\b", "morning", "(?:early|late|morning|afternoon|evening)", "\\bmornings?\\b", "\\w+"}
       [] w = "mornings" -> {"mornings?\\b", "\\bmornings?\\b", "\\w+"}
       [] w = "multiple" -> {"(?:one|1|multiple|some)", "\\w+"}
       [] w = "my" -> {"\\b(?:my|current)\\b", "\\w+"}
       [] w = "need" -> {"(?:prefer|want|need)", "(?:find|want|need)", "(?:need|require)", "\\w+"}
       [] w = "needed" -> {"\\w+"}
       [] w = "never" -> {"\\w+"}
       [] w = "no" -> {"(?:no|avoid|hate)", "(?:no|avoid)", "\\w+"}
       [] w = "non-stop" -> {"non-?stop"}
       [] w = "nonstop" -> {"non-?stop", "\\w+"}
       [] w = "not" -> {"not", "[a-z]{3}", "\\w+"}
       [] w = "ok" -> {"ok", "\\w+"}
       [] w = "okay" -> {"\\w+"}
       [] w = "on" -> {"\\bon", "\\w+"}
       [] w = "one" -> {"(?:one|1|multiple|some)", "[a-z]{3}", "\\w+"}
       [] w = "only" -> {"(?:only|flights|preferred)", "only", "\\w+"}
       [] w = "other" -> {"other", "\\w+"}
       [] w = "packer" -> {"packer", "\\w+"}
       [] w = "partner" -> {"(?:partner|spouse)", "\\w+"}
       [] w = "please" -> {"\\w+"}
       [] w = "possible" -> {"possible\\b", "\\w+"}
       [] w = "prefer" -> {"(?:prefer|like|love|want)", "(?:prefer|want|need)", "(?:prefer|fly|love)", "(?:prefer|want)", "\\w+"}
       [] w = "preference" -> {"\\b(?:preferences|preference)\\b", "\\w+"}
       [] w = "preferences" -> {"\\b(?:preferences|preference)\\b", "\\w+"}
       [] w = "preferred" -> {"(?:only|flights|preferred)", "\\w+"}
       [] w = "prefers" -> {"\\w+"}
       [] w = "premium" -> {"premium", "\\w+"}
       [] w = "price" -> {"\\w+"}
       [] w = "pull" -> {"\\bpull", "\\w+"}
       [] w = "red" -> {"red", "[a-z]{3}", "\\w+"}
       [] w = "red-eye" -> {"red-?eye"}
       [] w = "redeye" -> {"red-?eye", "redeye", "\\w+"}
       [] w = "remove" -> {"\\b(?:forget|delete|remove|clear|wipe|reset)\\b", "\\w+"}
       [] w = "require" -> {"(?:need|require)", "\\w+"}
       [] w = "reset" -> {"\\b(?:forget|delete|remove|clear|wipe|reset)\\b", "\\w+"}
       [] w = "return" -> {"\\w+"}
       [] w = "round" -> {"\\w+"}
       [] w = "row" -> {"row", "[a-z]{3}", "\\w+"}
       [] w = "search" -> {"search", "\\b(?:find|search|show|book|get|lookup|pullup)\\b", "\\w+"}
       [] w = "searched" -> {"\\w+"}
       [] w = "seat" -> {"seats?", "\\w+"}
       [] w = "seats" -> {"seats?", "\\w+"}
       [] w = "show" -> {"\\b(?:find|search|show|book|get|lookup|pullup)\\b", "\\b(?:what|show|list|tell)\\b", "\\w+"}
       [] w = "significant" -> {"significant", "\\w+"}
       [] w = "solo" -> {"(?:alone|solo)", "\\w+"}
       [] w = "some" -> {"(?:one|1|multiple|some)", "\\w+"}
       [] w = "southwest" -> {"(?:united|american|delta|southwest|jetblue|alaska|spirit|frontier)", "\\w+"}
       [] w = "spouse" -> {"(?:partner|spouse)", "\\w+"}
       [] w = "stopover" -> {"\\w+"}
       [] w = "stops" -> {"\\w+"}
       [] w = "style" -> {"\\w+"}
       [] w = "take" -> {"\\w+"}
       [] w = "tell" -> {"\\b(?:what|show|list|tell)\\b", "\\w+"}
       [] w = "the" -> {"the", "[a-z]{3}", "\\w+"}
       [] w = "tight" -> {"\\btight", "\\w+"}
       [] w = "time" -> {"\\w+"}
       [] w = "to" -> {"to", "\\bto\\b", "\\w+"}
       [] w = "travel" -> {"travel", "\\w+"}
       [] w = "traveled" -> {"\\w+"}
       [] w = "traveling" -> {"\\w+"}
       [] w = "trip" -> {"\\w+"}
       [] w = "true" -> {"\\w+"}
       [] w = "united" -> {"(?:united|american|delta|southwest|jetblue|alaska|spirit|frontier)", "\\w+"}
       [] w = "up" -> {"up\\b", "\\w+"}
       [] w = "usd" -> {"[a-z]{3}", "\\w+", "(?:usd|eur|gbp|\\$)"}
       [] w = "user" -> {"\\w+"}
       [] w = "want" -> {"(?:prefer|like|love|want)", "(?:prefer|want|need)", "(?:prefer|want)", "(?:find|want|need)", "\\w+"}
       [] w = "way" -> {"[a-z]{3}", "\\w+"}
       [] w = "what" -> {"\\b(?:what|show|list|tell)\\b", "\\w+"}
       [] w = "willing" -> {"\\w+"}
       [] w = "window" -> {"(?:window|aisle)", "\\w+"}
       [] w = "wipe" -> {"\\b(?:forget|delete|remove|clear|wipe|reset)\\b", "\\w+"}
       [] w = "with" -> {"with", "\\w+"}
       [] w = "without" -> {"\\w+"}
       [] w = "x" -> {"\\w+"}
       [] w = "yes" -> {"[a-z]{3}", "\\w+"}
       [] OTHER -> {}]

(* The atoms that match the whole of the lower-case word w (re.fullmatch). *)
ReExact(w) == IF w \in LowerVocabulary THEN ReExactTable[w] ELSE {}

RePrefixTable ==
  [w \in LowerVocabulary |->
     CASE w = "1" -> {"(?:one|1|multiple|some)", "\\w+"}
       [] w = "2" -> {"\\w+"}
       [] w = "420" -> {"\\w+"}
       [] w = "500" -> {"\\w+"}
       [] w = "5pm" -> {"\\w+"}
       [] w = "a" -> {"a", "\\w+"}
       [] w = "afternoon" -> {"afternoons?\\b", "afternoon", "(?:early|late|morning|afternoon|evening)", "a", "[a-z]{3}", "\\w+"}
       [] w = "afternoons" -> {"afternoons?\\b", "afternoon", "(?:early|late|morning|afternoon|evening)", "a", "[a-z]{3}", "\\w+"}
       [] w = "airline" -> {"a", "[a-z]{3}", "\\w+"}
       [] w = "aisle" -> {"(?:window|aisle)", "a", "[a-z]{3}", "\\w+"}
       [] w = "all" -> {"a", "[a-z]{3}", "\\w+"}
       [] w = "alone" -> {"(?:alone|solo)", "a", "[a-z]{3}", "\\w+"}
       [] w = "american" -> {"(?:united|american|delta|southwest|jetblue|alaska|spirit|frontier)", "a", "[a-z]{3}", "\\w+"}
       [] w = "are" -> {"a", "[a-z]{3}", "\\w+"}
       [] w = "as" -> {"a", "\\bas", "as", "\\w+"}
       [] w = "avoid" -> {"(?:hate|avoid)", "(?:avoid|hate)", "(?:no|avoid|hate)", "(?:no|avoid)", "a", "[a-z]{3}", "\\w+"}
       [] w = "bag" -> {"[a-z]{3}", "\\w+"}
       [] w = "baggage" -> {"baggage", "[a-z]{3}", "\\w+"}
       [] w = "baggage:" -> {"baggage", "[a-z]{3}", "\\w+"}
       [] w = "book" -> {"\\b(?:find|search|show|book|get|lookup|pullup)\\b", "[a-z]{3}", "\\w+"}
       [] w = "booked" -> {"[a-z]{3}", "\\w+"}
       [] w = "budget" -> {"budget\\b", "\\bbudget", "[a-z]{3}", "\\w+"}
       [] w = "budget-conscious" -> {"budget\\b", "\\bbudget", "\\bbudget-?conscious\\b", "[a-z]{3}", "\\w+"}
       [] w = "budget-friendly" -> {"budget\\b", "\\bbudget-?friendly\\b", "\\bbudget", "[a-z]{3}", "\\w+"}
       [] w = "business" -> {"\\bbusiness\\b", "[a-z]{3}", "\\w+"}
       [] w = "but" -> {"[a-z]{3}", "\\w+"}
       [] w = "cabin" -> {"cabin", "[a-z]{3}", "\\w+"}
       [] w = "cabin_class)" -> {"cabin", "[a-z]{3}", "\\w+"}
       [] w = "carrier" -> {"[a-z]{3}", "\\w+"}
       [] w = "carry-on" -> {"[a-z]{3}", "\\w+"}
       [] w = "center" -> {"(?:middle|center)", "[a-z]{3}", "\\w+"}
       [] w = "cheap" -> {"cheap", "[a-z]{3}", "\\w+"}
       [] w = "cheapest" -> {"cheap", "\\bcheapest", "[a-z]{3}", "\\w+"}
       [] w = "checked" -> {"(?:extra|checked)", "[a-z]{3}", "\\w+"}
       [] w = "children" -> {"(?:family|kids|children)", "[a-z]{3}", "\\w+"}
       [] w = "class" -> {"[a-z]{3}", "\\w+"}
       [] w = "class:" -> {"[a-z]{3}", "\\w+"}
       [] w = "clear" -> {"\\b(?:forget|delete|remove|clear|wipe|reset)\\b", "[a-z]{3}", "\\w+"}
       [] w = "conscious" -> {"conscious\\b", "[a-z]{3}", "\\w+"}
       [] w = "couple" -> {"[a-z]{3}", "\\w+"}
       [] w = "current" -> {"\\b(?:my|current)\\b", "[a-z]{3}", "\\w+"}
       [] w = "delete" -> {"\\b(?:forget|delete|remove|clear|wipe|reset)\\b", "[a-z]{3}", "\\w+"}
       [] w = "delta" -> {"(?:united|american|delta|southwest|jetblue|alaska|spirit|frontier)", "[a-z]{3}", "\\w+"}
       [] w = "departure" -> {"departures?", "[a-z]{3}", "\\w+"}
       [] w = "departure_time)" -> {"departures?", "[a-z]{3}", "\\w+"}
       [] w = "departures" -> {"departures?", "[a-z]{3}", "\\w+"}
       [] w = "direct" -> {"direct", "[a-z]{3}", "\\w+"}
       [] w = "do" -> {"do", "\\w+"}
       [] w = "don't" -> {"don'?t", "don", "do", "don't", "[a-z]{3}", "\\w+"}
       [] w = "dont" -> {"don'?t", "don", "do", "[a-z]{3}", "\\w+"}
       [] w = "early" -> {"early", "(?:early|late|morning|afternoon|evening)", "[a-z]{3}", "\\w+"}
       [] w = "economy" -> {"economy", "\\beconomy\\b", "[a-z]{3}", "\\w+"}
       [] w = "evening" -> {"evenings?\\b", "evening", "(?:early|late|morning|afternoon|evening)", "[a-z]{3}", "\\w+"}
       [] w = "evenings" -> {"evenings?\\b", "evening", "(?:early|late|morning|afternoon|evening)", "[a-z]{3}", "\\w+"}
       [] w = "everything" -> {"[a-z]{3}", "\\w+"}
       [] w = "exit" -> {"exit", "[a-z]{3}", "\\w+"}
       [] w = "extra" -> {"(?:extra|checked)", "[a-z]{3}", "\\w+"}
       [] w = "eye" -> {"-?eye", "[a-z]{3}", "\\w+"}
       [] w = "family" -> {"(?:family|kids|children)", "[a-z]{3}", "\\w+"}
       [] w = "find" -> {"(?:find|want|need)", "\\b(?:find|search|show|book|get|lookup|pullup)\\b", "[a-z]{3}", "\\w+"}
       [] w = "fine" -> {"[a-z]{3}", "\\w+"}
       [] w = "first" -> {"\\bfirst\\b", "[a-z]{3}", "\\w+"}
       [] w = "flight" -> {"flights?", "[a-z]{3}", "\\w+", "flight"}
       [] w = "flights" -> {"flights?", "(?:only|flights|preferred)", "[a-z]{3}", "\\w+", "flight"}
       [] w = "fly" -> {"(?:fly|flying)", "(?:prefer|fly|love)", "[a-z]{3}", "\\w+"}
       [] w = "flying" -> {"flying", "(?:fly|flying)", "(?:prefer|fly|love)", "[a-z]{3}", "\\w+"}
       [] w = "for" -> {"for", "[a-z]{3}", "\\w+"}
       [] w = "forget" -> {"for", "\\b(?:forget|delete|remove|clear|wipe|reset)\\b", "[a-z]{3}", "\\w+"}
       [] w = "friendly" -> {"friendly\\b", "[a-z]{3}", "\\w+"}
       [] w = "from" -> {"\\bfrom\\b", "from", "[a-z]{3}", "\\w+"}
       [] w = "general" -> {"[a-z]{3}", "\\w+"}
       [] w = "general)" -> {"[a-z]{3}", "\\w+"}
       [] w = "get" -> {"\\b(?:find|search|show|book|get|lookup|pullup)\\b", "[a-z]{3}", "\\w+"}
       [] w = "hate" -> {"(?:hate|avoid)", "(?:avoid|hate)", "(?:no|avoid|hate)", "[a-z]{3}", "\\w+"}
       [] w = "home" -> {"[a-z]{3}", "\\w+"}
       [] w = "houston" -> {"[a-z]{3}", "\\w+"}
       [] w = "i" -> {"i", "\\w+"}
       [] w = "i'm" -> {"i", "\\w+"}
       [] w = "in" -> {"in", "i", "\\bin", "\\w+"}
       [] w = "is" -> {"i", "\\w+"}
       [] w = "jfk" -> {"[a-z]{3}", "\\w+"}
       [] w = "kids" -> {"(?:family|kids|children)", "[a-z]{3}", "\\w+"}
       [] w = "late" -> {"late", "(?:early|late|morning|afternoon|evening)", "[a-z]{3}", "\\w+"}
       [] w = "lax" -> {"[a-z]{3}", "\\w+"}
       [] w = "layover" -> {"layovers?", "[a-z]{3}", "\\w+"}
       [] w = "layovers" -> {"layovers?", "[a-z]{3}", "\\w+"}
       [] w = "light" -> {"light", "[a-z]{3}", "\\w+"}
       [] w = "like" -> {"like", "(?:prefer|like|love|want)", "[a-z]{3}", "\\w+"}
       [] w = "likes" -> {"like", "(?:prefer|like|love|want)", "[a-z]{3}", "\\w+"}
       [] w = "list" -> {"\\b(?:what|show|list|tell)\\b", "[a-z]{3}", "\\w+"}
       [] w = "look" -> {"\\blook", "[a-z]{3}", "\\w+"}
       [] w = "looking" -> {"\\blook", "[a-z]{3}", "\\w+"}
       [] w = "love" -> {"(?:prefer|like|love|want)", "(?:prefer|fly|love)", "[a-z]{3}", "\\w+"}
       [] w = "luggage" -> {"[a-z]{3}", "\\w+"}
       [] w = "luxury" -> {"[a-z]{3}", "\\w+"}
       [] w = "max" -> {"[a-z]{3}", "\\w+"}
       [] w = "middle" -> {"(?:middle|center)", "[a-z]{3}", "\\w+"}
       [] w = "mind" -> {"mind", "[a-z]{3}", "\\w+"}
       [] w = "minimal" -> {"minimal", "[a-z]{3}", "\\w+"}
       [] w = "morning" -> {"mornings?\\b", "morning", "(?:early|late|morning|afternoon|evening)", "\\bmornings?\\b", "[a-z]{3}", "\\w+"}
       [] w = "mornings" -> {"mornings?\\b", "morning", "(?:early|late|morning|afternoon|evening)", "\\bmornings?\\b", "[a-z]{3}", "\\w+"}
       [] w = "multiple" -> {"(?:one|1|multiple|some)", "[a-z]{3}", "\\w+"}
       [] w = "my" -> {"\\b(?:my|current)\\b", "\\w+"}
       [] w = "need" -> {"(?:prefer|want|need)", "(?:find|want|need)", "(?:need|require)", "[a-z]{3}", "\\w+"}
       [] w = "needed" -> {"(?:prefer|want|need)", "(?:find|want|need)", "(?:need|require)", "[a-z]{3}", "\\w+"}
       [] w = "never" -> {"[a-z]{3}", "\\w+"}
       [] w = "no" -> {"(?:no|avoid|hate)", "(?:no|avoid)", "\\w+"}
       [] w = "non-stop" -> {"(?:no|avoid|hate)", "non-?stop", "(?:no|avoid)", "[a-z]{3}", "\\w+"}
       [] w = "nonstop" -> {"(?:no|avoid|hate)", "non-?stop", "(?:no|avoid)", "[a-z]{3}", "\\w+"}
       [] w = "not" -> {"not", "(?:no|avoid|hate)", "(?:no|avoid)", "[a-z]{3}", "\\w+"}
       [] w = "ok" -> {"ok", "\\w+"}
       [] w = "okay" -> {"ok", "[a-z]{3}", "\\w+"}
       [] w = "on" -> {"\\bon", "\\w+"}
       [] w = "one" -> {"(?:one|1|multiple|some)", "\\bon", "[a-z]{3}", "\\w+"}
       [] w = "one-way" -> {"(?:one|1|multiple|some)", "\\bon", "[a-z]{3}", "\\w+"}
       [] w = "only" -> {"(?:only|flights|preferred)", "only", "\\bon", "[a-z]{3}", "\\w+"}
       [] w = "other" -> {"other", "[a-z]{3}", "\\w+"}
       [] w = "packer" -> {"packer", "[a-z]{3}", "\\w+"}
       [] w = "partner" -> {"(?:partner|spouse)", "[a-z]{3}", "\\w+"}
       [] w = "passenger)" -> {"[a-z]{3}", "\\w+"}
       [] w = "please" -> {"[a-z]{3}", "\\w+"}
       [] w = "possible" -> {"possible\\b", "[a-z]{3}", "\\w+"}
       [] w = "prefer" -> {"(?:prefer|like|love|want)", "(?:prefer|want|need)", "(?:prefer|fly|love)", "(?:prefer|want)", "[a-z]{3}", "\\w+"}
       [] w = "preference" -> {"(?:prefer|like|love|want)", "(?:prefer|want|need)", "(?:prefer|fly|love)", "(?:prefer|want)", "\\b(?:preferences|preference)\\b", "[a-z]{3}", "\\w+"}
       [] w = "preference:" -> {"(?:prefer|like|love|want)", "(?:prefer|want|need)", "(?:prefer|fly|love)", "(?:prefer|want)", "\\b(?:preferences|preference)\\b", "[a-z]{3}", "\\w+"}
       [] w = "preferences" -> {"(?:prefer|like|love|want)", "(?:prefer|want|need)", "(?:prefer|fly|love)", "(?:prefer|want)", "\\b(?:preferences|preference)\\b", "[a-z]{3}", "\\w+"}
       [] w = "preferred" -> {"(?:prefer|like|love|want)", "(?:prefer|want|need)", "(?:prefer|fly|love)", "(?:prefer|want)", "(?:only|flights|preferred)", "[a-z]{3}", "\\w+"}
       [] w = "prefers" -> {"(?:prefer|like|love|want)", "(?:prefer|want|need)", "(?:prefer|fly|love)", "(?:prefer|want)", "[a-z]{3}", "\\w+"}
       [] w = "premium" -> {"premium", "[a-z]{3}", "\\w+"}
       [] w = "price" -> {"[a-z]{3}", "\\w+"}
       [] w = "pull" -> {"\\bpull", "[a-z]{3}", "\\w+"}
       [] w = "red" -> {"red", "[a-z]{3}", "\\w+"}
       [] w = "red-eye" -> {"red-?eye", "red", "[a-z]{3}", "\\w+"}
       [] w = "red-eye:" -> {"red-?eye", "red", "[a-z]{3}", "\\w+"}
       [] w = "redeye" -> {"red-?eye", "red", "redeye", "[a-z]{3}", "\\w+"}
       [] w = "remove" -> {"\\b(?:forget|delete|remove|clear|wipe|reset)\\b", "[a-z]{3}", "\\w+"}
       [] w = "require" -> {"(?:need|require)", "[a-z]{3}", "\\w+"}
       [] w = "reset" -> {"\\b(?:forget|delete|remove|clear|wipe|reset)\\b", "[a-z]{3}", "\\w+"}
       [] w = "return" -> {"[a-z]{3}", "\\w+"}
       [] w = "round" -> {"[a-z]{3}", "\\w+"}
       [] w = "round-trip" -> {"[a-z]{3}", "\\w+"}
       [] w = "row" -> {"row", "[a-z]{3}", "\\w+"}
       [] w = "search" -> {"search", "\\b(?:find|search|show|book|get|lookup|pullup)\\b", "[a-z]{3}", "\\w+"}
       [] w = "searched" -> {"search", "[a-z]{3}", "\\w+"}
       [] w = "seat" -> {"seats?", "[a-z]{3}", "\\w+"}
       [] w = "seat:" -> {"seats?", "[a-z]{3}", "\\w+"}
       [] w = "seats" -> {"seats?", "[a-z]{3}", "\\w+"}
       [] w = "show" -> {"\\b(?:find|search|show|book|get|lookup|pullup)\\b", "\\b(?:what|show|list|tell)\\b", "[a-z]{3}", "\\w+"}
       [] w = "significant" -> {"significant", "[a-z]{3}", "\\w+"}
       [] w = "solo" -> {"(?:alone|solo)", "[a-z]{3}", "\\w+"}
       [] w = "some" -> {"(?:one|1|multiple|some)", "[a-z]{3}", "\\w+"}
       [] w = "southwest" -> {"(?:united|american|delta|southwest|jetblue|alaska|spirit|frontier)", "[a-z]{3}", "\\w+"}
       [] w = "spouse" -> {"(?:partner|spouse)", "[a-z]{3}", "\\w+"}
       [] w = "stopover" -> {"[a-z]{3}", "\\w+"}
       [] w = "stops" -> {"[a-z]{3}", "\\w+"}
       [] w = "stops:" -> {"[a-z]{3}", "\\w+"}
       [] w = "style" -> {"[a-z]{3}", "\\w+"}
       [] w = "take" -> {"'?t", "[a-z]{3}", "\\w+"}
       [] w = "tell" -> {"'?t", "\\b(?:what|show|list|tell)\\b", "[a-z]{3}", "\\w+"}
       [] w = "the" -> {"'?t", "the", "[a-z]{3}", "\\w+"}
       [] w = "tight" -> {"'?t", "\\btight", "[a-z]{3}", "\\w+"}
       [] w = "time" -> {"'?t", "[a-z]{3}", "\\w+"}
       [] w = "time:" -> {"'?t", "[a-z]{3}", "\\w+"}
       [] w = "to" -> {"'?t", "to", "\\bto\\b", "\\w+"}
       [] w = "travel" -> {"'?t", "travel", "[a-z]{3}", "\\w+"}
       [] w = "travel:" -> {"'?t", "travel", "[a-z]{3}", "\\w+"}
       [] w = "traveled" -> {"'?t", "travel", "[a-z]{3}", "\\w+"}
       [] w = "traveling" -> {"'?t", "travel", "[a-z]{3}", "\\w+"}
       [] w = "trip" -> {"'?t", "[a-z]{3}", "\\w+"}
       [] w = "true" -> {"'?t", "[a-z]{3}", "\\w+"}
       [] w = "type:" -> {"'?t", "[a-z]{3}", "\\w+"}
       [] w = "united" -> {"(?:united|american|delta|southwest|jetblue|alaska|spirit|frontier)", "[a-z]{3}", "\\w+"}
       [] w = "up" -> {"up\\b", "\\w+"}
       [] w = "usd" -> {"[a-z]{3}", "\\w+", "(?:usd|eur|gbp|\\$)"}
       [] w = "user" -> {"[a-z]{3}", "\\w+"}
       [] w = "want" -> {"(?:prefer|like|love|want)", "(?:prefer|want|need)", "(?:prefer|want)", "(?:find|want|need)", "[a-z]{3}", "\\w+"}
       [] w = "way" -> {"[a-z]{3}", "\\w+"}
       [] w = "what" -> {"\\b(?:what|show|list|tell)\\b", "[a-z]{3}", "\\w+"}
       [] w = "willing" -> {"[a-z]{3}", "\\w+"}
       [] w = "window" -> {"(?:window|aisle)", "[a-z]{3}", "\\w+"}
       [] w = "window/aisle/exit" -> {"(?:window|aisle)", "[a-z]{3}", "\\w+"}
       [] w = "wipe" -> {"\\b(?:forget|delete|remove|clear|wipe|reset)\\b", "[a-z]{3}", "\\w+"}
       [] w = "with" -> {"with", "[a-z]{3}", "\\w+"}
       [] w = "without" -> {"with", "[a-z]{3}", "\\w+"}
       [] w = "x" -> {"\\w+"}
       [] w = "yes" -> {"[a-z]{3}", "\\w+"}
       [] OTHER -> {}]

(* The atoms that match at the start of the lower-case word w (re.match). *)
RePrefix(w) == IF w \in LowerVocabulary THEN RePrefixTable[w] ELSE {}

ReSuffixTable ==
  [w \in LowerVocabulary |->
     CASE w = "1" -> {"(?:one|1|multiple|some)", "\\w+"}
       [] w = "2" -> {"\\w+"}
       [] w = "420" -> {"\\w+"}
       [] w = "500" -> {"\\w+"}
       [] w = "5pm" -> {"\\w+"}
       [] w = "a" -> {"a", "\\w+"}
       [] w = "afternoon" -> {"afternoons?\\b", "afternoon", "(?:early|late|morning|afternoon|evening)", "[a-z]{3}", "\\w+"}
       [] w = "afternoons" -> {"afternoons?\\b", "[a-z]{3}", "\\w+"}
       [] w = "airline" -> {"[a-z]{3}", "\\w+"}
       [] w = "aisle" -> {"(?:window|aisle)", "[a-z]{3}", "\\w+"}
       [] w = "all" -> {"[a-z]{3}", "\\w+"}
       [] w = "alone" -> {"(?:one|1|multiple|some)", "(?:alone|solo)", "[a-z]{3}", "\\w+"}
       [] w = "american" -> {"(?:united|american|delta|southwest|jetblue|alaska|spirit|frontier)", "[a-z]{3}", "\\w+"}
       [] w = "are" -> {"[a-z]{3}", "\\w+"}
       [] w = "as" -> {"\\bas", "as", "\\w+"}
       [] w = "avoid" -> {"(?:hate|avoid)", "(?:avoid|hate)", "(?:no|avoid|hate)", "(?:no|avoid)", "[a-z]{3}", "\\w+"}
       [] w = "bag" -> {"[a-z]{3}", "\\w+"}
       [] w = "baggage" -> {"baggage", "[a-z]{3}", "\\w+"}
       [] w = "book" -> {"ok", "\\b(?:find|search|show|book|get|lookup|pullup)\\b", "[a-z]{3}", "\\w+"}
       [] w = "booked" -> {"[a-z]{3}", "\\w+"}
       [] w = "budget" -> {"'?t", "budget\\b", "\\bbudget", "[a-z]{3}", "\\w+"}
       [] w = "budget-conscious" -> {"\\bbudget-?conscious\\b", "conscious\\b", "[a-z]{3}", "\\w+"}
       [] w = "budget-friendly" -> {"\\bbudget-?friendly\\b", "friendly\\b", "[a-z]{3}", "\\w+"}
       [] w = "business" -> {"\\bbusiness\\b", "[a-z]{3}", "\\w+"}
       [] w = "but" -> {"'?t", "[a-z]{3}", "\\w+"}
       [] w = "cabin" -> {"in", "cabin", "[a-z]{3}", "\\w+"}
       [] w = "carrier" -> {"[a-z]{3}", "\\w+"}
       [] w = "carry-on" -> {"\\bon", "\\w+"}
       [] w = "center" -> {"(?:middle|center)", "[a-z]{3}", "\\w+"}
       [] w = "cheap" -> {"cheap", "[a-z]{3}", "\\w+"}
       [] w = "cheapest" -> {"'?t", "\\bcheapest", "[a-z]{3}", "\\w+"}
       [] w = "checked" -> {"(?:extra|checked)", "[a-z]{3}", "\\w+"}
       [] w = "children" -> {"(?:family|kids|children)", "[a-z]{3}", "\\w+"}
       [] w = "class" -> {"[a-z]{3}", "\\w+"}
       [] w = "clear" -> {"\\b(?:forget|delete|remove|clear|wipe|reset)\\b", "[a-z]{3}", "\\w+"}
       [] w = "conscious" -> {"conscious\\b", "[a-z]{3}", "\\w+"}
       [] w = "couple" -> {"[a-z]{3}", "\\w+"}
       [] w = "current" -> {"'?t", "\\b(?:my|current)\\b", "[a-z]{3}", "\\w+"}
       [] w = "delete" -> {"\\b(?:forget|delete|remove|clear|wipe|reset)\\b", "[a-z]{3}", "\\w+"}
       [] w = "delta" -> {"(?:united|american|delta|southwest|jetblue|alaska|spirit|frontier)", "a", "[a-z]{3}", "\\w+"}
       [] w = "departure" -> {"departures?", "[a-z]{3}", "\\w+"}
       [] w = "departures" -> {"departures?", "[a-z]{3}", "\\w+"}
       [] w = "direct" -> {"'?t", "direct", "[a-z]{3}", "\\w+"}
       [] w = "do" -> {"do", "\\w+"}
       [] w = "don't" -> {"don'?t", "'?t", "don't", "\\w+"}
       [] w = "dont" -> {"don'?t", "'?t", "[a-z]{3}", "\\w+"}
       [] w = "early" -> {"early", "(?:early|late|morning|afternoon|evening)", "[a-z]{3}", "\\w+"}
       [] w = "economy" -> {"economy", "\\beconomy\\b", "[a-z]{3}", "\\w+"}
       [] w = "evening" -> {"evenings?\\b", "evening", "(?:early|late|morning|afternoon|evening)", "[a-z]{3}", "\\w+"}
       [] w = "evenings" -> {"evenings?\\b", "[a-z]{3}", "\\w+"}
       [] w = "everything" -> {"[a-z]{3}", "\\w+"}
       [] w = "exit" -> {"'?t", "exit", "[a-z]{3}", "\\w+"}
       [] w = "extra" -> {"(?:extra|checked)", "a", "[a-z]{3}", "\\w+"}
       [] w = "eye" -> {"-?eye", "[a-z]{3}", "\\w+"}
       [] w = "family" -> {"(?:family|kids|children)", "[a-z]{3}", "\\w+"}
       [] w = "find" -> {"(?:find|want|need)", "\\b(?:find|search|show|book|get|lookup|pullup)\\b", "[a-z]{3}", "\\w+"}
       [] w = "fine" -> {"[a-z]{3}", "\\w+"}
       [] w = "first" -> {"'?t", "\\bfirst\\b", "[a-z]{3}", "\\w+"}
       [] w = "flight" -> {"'?t", "flights?", "light", "[a-z]{3}", "\\w+", "flight"}
       [] w = "flights" -> {"flights?", "(?:only|flights|preferred)", "[a-z]{3}", "\\w+"}
       [] w = "fly" -> {"(?:fly|flying)", "(?:prefer|fly|love)", "[a-z]{3}", "\\w+"}
       [] w = "flying" -> {"flying", "(?:fly|flying)", "[a-z]{3}", "\\w+"}
       [] w = "for" -> {"for", "[a-z]{3}", "\\w+"}
       [] w = "forget" -> {"'?t", "\\b(?:forget|delete|remove|clear|wipe|reset)\\b", "[a-z]{3}", "\\w+"}
       [] w = "friendly" -> {"friendly\\b", "[a-z]{3}", "\\w+"}
       [] w = "from" -> {"\\bfrom\\b", "from", "[a-z]{3}", "\\w+"}
       [] w = "general" -> {"[a-z]{3}", "\\w+"}
       [] w = "get" -> {"'?t", "\\b(?:find|search|show|book|get|lookup|pullup)\\b", "[a-z]{3}", "\\w+"}
       [] w = "hate" -> {"(?:hate|avoid)", "(?:avoid|hate)", "(?:no|avoid|hate)", "[a-z]{3}", "\\w+"}
       [] w = "home" -> {"[a-z]{3}", "\\w+"}
       [] w = "houston" -> {"[a-z]{3}", "\\w+"}
       [] w = "i" -> {"i", "\\w+"}
       [] w = "i'm" -> {"\\w+"}
       [] w = "in" -> {"in", "\\bin", "\\w+"}
       [] w = "is" -> {"\\w+"}
       [] w = "jfk" -> {"[a-z]{3}", "\\w+"}
       [] w = "kids" -> {"(?:family|kids|children)", "[a-z]{3}", "\\w+"}
       [] w = "late" -> {"late", "(?:early|late|morning|afternoon|evening)", "[a-z]{3}", "\\w+"}
       [] w = "lax" -> {"[a-z]{3}", "\\w+"}
       [] w = "layover" -> {"layovers?", "[a-z]{3}", "\\w+"}
       [] w = "layovers" -> {"layovers?", "[a-z]{3}", "\\w+"}
       [] w = "light" -> {"'?t", "light", "[a-z]{3}", "\\w+"}
       [] w = "like" -> {"like", "(?:prefer|like|love|want)", "[a-z]{3}", "\\w+"}
       [] w = "likes" -> {"[a-z]{3}", "\\w+"}
       [] w = "list" -> {"'?t", "\\b(?:what|show|list|tell)\\b", "[a-z]{3}", "\\w+"}
       [] w = "look" -> {"ok", "\\blook", "[a-z]{3}", "\\w+"}
       [] w = "looking" -> {"[a-z]{3}", "\\w+"}
       [] w = "love" -> {"(?:prefer|like|love|want)", "(?:prefer|fly|love)", "[a-z]{3}", "\\w+"}
       [] w = "luggage" -> {"[a-z]{3}", "\\w+"}
       [] w = "luxury" -> {"[a-z]{3}", "\\w+"}
       [] w = "max" -> {"[a-z]{3}", "\\w+"}
       [] w = "middle" -> {"(?:middle|center)", "[a-z]{3}", "\\w+"}
       [] w = "mind" -> {"mind", "[a-z]{3}", "\\w+"}
       [] w = "minimal" -> {"minimal", "[a-z]{3}", "\\w+"}
       [] w = "morning" -> {"mornings?\\b", "morning", "(?:early|late|morning|afternoon|evening)", "\\bmornings?\\b", "[a-z]{3}", "\\w+"}
       [] w = "mornings" -> {"mornings?\\b", "\\bmornings?\\b", "[a-z]{3}", "\\w+"}
       [] w = "multiple" -> {"(?:one|1|multiple|some)", "[a-z]{3}", "\\w+"}
       [] w = "my" -> {"\\b(?:my|current)\\b", "\\w+"}
       [] w = "need" -> {"(?:prefer|want|need)", "(?:find|want|need)", "(?:need|require)", "[a-z]{3}", "\\w+"}
       [] w = "needed" -> {"[a-z]{3}", "\\w+"}
       [] w = "never" -> {"[a-z]{3}", "\\w+"}
       [] w = "no" -> {"(?:no|avoid|hate)", "(?:no|avoid)", "\\w+"}
       [] w = "non-stop" -> {"non-?stop", "[a-z]{3}", "\\w+"}
       [] w = "nonstop" -> {"non-?stop", "[a-z]{3}", "\\w+"}
       [] w = "not" -> {"'?t", "not", "[a-z]{3}", "\\w+"}
       [] w = "ok" -> {"ok", "\\w+"}
       [] w = "okay" -> {"[a-z]{3}", "\\w+"}
       [] w = "on" -> {"\\bon", "\\w+"}
       [] w = "one" -> {"(?:one|1|multiple|some)", "[a-z]{3}", "\\w+"}
       [] w = "one-way" -> {"[a-z]{3}", "\\w+"}
       [] w = "only" -> {"(?:only|flights|preferred)", "only", "[a-z]{3}", "\\w+"}
       [] w = "other" -> {"other", "[a-z]{3}", "\\w+"}
       [] w = "packer" -> {"packer", "[a-z]{3}", "\\w+"}
       [] w = "partner" -> {"(?:partner|spouse)", "[a-z]{3}", "\\w+"}
       [] w = "please" -> {"[a-z]{3}", "\\w+"}
       [] w = "possible" -> {"possible\\b", "[a-z]{3}", "\\w+"}
       [] w = "prefer" -> {"(?:prefer|like|love|want)", "(?:prefer|want|need)", "(?:prefer|fly|love)", "(?:prefer|want)", "[a-z]{3}", "\\w+"}
       [] w = "preference" -> {"\\b(?:preferences|preference)\\b", "[a-z]{3}", "\\w+"}
       [] w = "preferences" -> {"\\b(?:preferences|preference)\\b", "[a-z]{3}", "\\w+"}
       [] w = "preferred" -> {"(?:only|flights|preferred)", "red", "[a-z]{3}", "\\w+"}
       [] w = "prefers" -> {"[a-z]{3}", "\\w+"}
       [] w = "premium" -> {"premium", "[a-z]{3}", "\\w+"}
       [] w = "price" -> {"[a-z]{3}", "\\w+"}
       [] w = "pull" -> {"\\bpull", "[a-z]{3}", "\\w+"}
       [] w = "red" -> {"red", "[a-z]{3}", "\\w+"}
       [] w = "red-eye" -> {"red-?eye", "-?eye", "[a-z]{3}", "\\w+"}
       [] w = "redeye" -> {"red-?eye", "-?eye", "redeye", "[a-z]{3}", "\\w+"}
       [] w = "remove" -> {"\\b(?:forget|delete|remove|clear|wipe|reset)\\b", "[a-z]{3}", "\\w+"}
       [] w = "require" -> {"(?:need|require)", "[a-z]{3}", "\\w+"}
       [] w = "reset" -> {"'?t", "\\b(?:forget|delete|remove|clear|wipe|reset)\\b", "[a-z]{3}", "\\w+"}
       [] w = "return" -> {"[a-z]{3}", "\\w+"}
       [] w = "round" -> {"[a-z]{3}", "\\w+"}
       [] w = "round-trip" -> {"[a-z]{3}", "\\w+"}
       [] w = "row" -> {"row", "[a-z]{3}", "\\w+"}
       [] w = "search" -> {"search", "\\b(?:find|search|show|book|get|lookup|pullup)\\b", "[a-z]{3}", "\\w+"}
       [] w = "searched" -> {"[a-z]{3}", "\\w+"}
       [] w = "seat" -> {"'?t", "seats?", "[a-z]{3}", "\\w+"}
       [] w = "seats" -> {"seats?", "[a-z]{3}", "\\w+"}
       [] w = "show" -> {"\\b(?:find|search|show|book|get|lookup|pullup)\\b", "\\b(?:what|show|list|tell)\\b", "[a-z]{3}", "\\w+"}
       [] w = "significant" -> {"'?t", "significant", "[a-z]{3}", "\\w+"}
       [] w = "solo" -> {"(?:alone|solo)", "[a-z]{3}", "\\w+"}
       [] w = "some" -> {"(?:one|1|multiple|some)", "[a-z]{3}", "\\w+"}
       [] w = "southwest" -> {"'?t", "(?:united|american|delta|southwest|jetblue|alaska|spirit|frontier)", "[a-z]{3}", "\\w+"}
       [] w = "spouse" -> {"(?:partner|spouse)", "[a-z]{3}", "\\w+"}
       [] w = "stopover" -> {"[a-z]{3}", "\\w+"}
       [] w = "stops" -> {"[a-z]{3}", "\\w+"}
       [] w = "style" -> {"[a-z]{3}", "\\w+"}
       [] w = "take" -> {"[a-z]{3}", "\\w+"}
       [] w = "tell" -> {"\\b(?:what|show|list|tell)\\b", "[a-z]{3}", "\\w+"}
       [] w = "the" -> {"the", "[a-z]{3}", "\\w+"}
       [] w = "tight" -> {"'?t", "\\btight", "[a-z]{3}", "\\w+"}
       [] w = "time" -> {"[a-z]{3}", "\\w+"}
       [] w = "to" -> {"to", "\\bto\\b", "\\w+"}
       [] w = "travel" -> {"travel", "[a-z]{3}", "\\w+"}
       [] w = "traveled" -> {"[a-z]{3}", "\\w+"}
       [] w = "traveling" -> {"[a-z]{3}", "\\w+"}
       [] w = "trip" -> {"[a-z]{3}", "\\w+"}
       [] w = "true" -> {"[a-z]{3}", "\\w+"}
       [] w = "united" -> {"(?:united|american|delta|southwest|jetblue|alaska|spirit|frontier)", "[a-z]{3}", "\\w+"}
       [] w = "up" -> {"up\\b", "\\w+"}
       [] w = "usd" -> {"[a-z]{3}", "\\w+", "(?:usd|eur|gbp|\\$)"}
       [] w = "user" -> {"[a-z]{3}", "\\w+"}
       [] w = "want" -> {"'?t", "(?:prefer|like|love|want)", "(?:prefer|want|need)", "(?:prefer|want)", "(?:find|want|need)", "[a-z]{3}", "\\w+"}
       [] w = "way" -> {"[a-z]{3}", "\\w+"}
       [] w = "what" -> {"'?t", "\\b(?:what|show|list|tell)\\b", "[a-z]{3}", "\\w+"}
       [] w = "willing" -> {"[a-z]{3}", "\\w+"}
       [] w = "window" -> {"(?:window|aisle)", "[a-z]{3}", "\\w+"}
       [] w = "window/aisle/exit" -> {"'?t", "exit", "[a-z]{3}", "\\w+"}
       [] w = "wipe" -> {"\\b(?:forget|delete|remove|clear|wipe|reset)\\b", "[a-z]{3}", "\\w+"}
       [] w = "with" -> {"with", "[a-z]{3}", "\\w+"}
       [] w = "without" -> {"'?t", "[a-z]{3}", "\\w+"}
       [] w = "x" -> {"\\w+"}
       [] w = "yes" -> {"[a-z]{3}", "\\w+"}
       [] OTHER -> {}]

(* The atoms that match up to the end of the lower-case word w. *)
ReSuffix(w) == IF w \in LowerVocabulary THEN ReSuffixTable[w] ELSE {}

ReInnerTable ==
  [w \in LowerVocabulary |->
     CASE w = "(type:" -> {"'?t", "[a-z]{3}", "\\w+"}
       [] w = "1" -> {"(?:one|1|multiple|some)", "\\w+"}
       [] w = "2" -> {"\\w+"}
       [] w = "420" -> {"\\w+"}
       [] w = "500" -> {"\\w+"}
       [] w = "5pm" -> {"\\w+"}
       [] w = "a" -> {"a", "\\w+"}
       [] w = "afternoon" -> {"'?t", "(?:no|avoid|hate)", "afternoons?\\b", "afternoon", "(?:early|late|morning|afternoon|evening)", "(?:no|avoid)", "a", "[a-z]{3}", "\\w+"}
       [] w = "afternoons" -> {"'?t", "(?:no|avoid|hate)", "afternoons?\\b", "afternoon", "(?:early|late|morning|afternoon|evening)", "(?:no|avoid)", "a", "[a-z]{3}", "\\w+"}
       [] w = "airline" -> {"in", "i", "a", "[a-z]{3}", "\\w+"}
       [] w = "aisle" -> {"i", "(?:window|aisle)", "a", "[a-z]{3}", "\\w+"}
       [] w = "all" -> {"a", "[a-z]{3}", "\\w+"}
       [] w = "alone" -> {"(?:one|1|multiple|some)", "(?:alone|solo)", "a", "[a-z]{3}", "\\w+"}
       [] w = "american" -> {"i", "(?:united|american|delta|southwest|jetblue|alaska|spirit|frontier)", "a", "[a-z]{3}", "\\w+"}
       [] w = "are" -> {"a", "[a-z]{3}", "\\w+"}
       [] w = "as" -> {"a", "\\bas", "as", "\\w+"}
       [] w = "avoid" -> {"(?:hate|avoid)", "i", "(?:avoid|hate)", "(?:no|avoid|hate)", "(?:no|avoid)", "a", "[a-z]{3}", "\\w+"}
       [] w = "bag" -> {"a", "[a-z]{3}", "\\w+"}
       [] w = "baggage" -> {"baggage", "a", "[a-z]{3}", "\\w+"}
       [] w = "baggage:" -> {"baggage", "a", "[a-z]{3}", "\\w+"}
       [] w = "book" -> {"ok", "\\b(?:find|search|show|book|get|lookup|pullup)\\b", "[a-z]{3}", "\\w+"}
       [] w = "booked" -> {"ok", "[a-z]{3}", "\\w+"}
       [] w = "budget" -> {"'?t", "budget\\b", "\\bbudget", "[a-z]{3}", "\\w+"}
       [] w = "budget-conscious" -> {"'?t", "i", "budget\\b", "\\bbudget", "\\bbudget-?conscious\\b", "conscious\\b", "[a-z]{3}", "\\w+"}
       [] w = "budget-friendly" -> {"'?t", "i", "budget\\b", "\\bbudget-?friendly\\b", "\\bbudget", "friendly\\b", "[a-z]{3}", "\\w+"}
       [] w = "business" -> {"in", "i", "\\bbusiness\\b", "[a-z]{3}", "\\w+"}
       [] w = "but" -> {"'?t", "[a-z]{3}", "\\w+"}
       [] w = "cabin" -> {"in", "i", "cabin", "a", "[a-z]{3}", "\\w+"}
       [] w = "cabin_class)" -> {"in", "i", "cabin", "a", "as", "[a-z]{3}", "\\w+"}
       [] w = "carrier" -> {"i", "a", "[a-z]{3}", "\\w+"}
       [] w = "carry-on" -> {"\\bon", "a", "[a-z]{3}", "\\w+"}
       [] w = "center" -> {"'?t", "(?:middle|center)", "[a-z]{3}", "\\w+"}
       [] w = "cheap" -> {"a", "cheap", "[a-z]{3}", "\\w+"}
       [] w = "cheapest" -> {"'?t", "a", "cheap", "\\bcheapest", "[a-z]{3}", "\\w+"}
       [] w = "checked" -> {"(?:extra|checked)", "[a-z]{3}", "\\w+"}
       [] w = "children" -> {"i", "(?:family|kids|children)", "[a-z]{3}", "\\w+"}
       [] w = "class" -> {"a", "as", "[a-z]{3}", "\\w+"}
       [] w = "class:" -> {"a", "as", "[a-z]{3}", "\\w+"}
       [] w = "clear" -> {"a", "\\b(?:forget|delete|remove|clear|wipe|reset)\\b", "[a-z]{3}", "\\w+"}
       [] w = "conscious" -> {"i", "conscious\\b", "[a-z]{3}", "\\w+"}
       [] w = "couple" -> {"[a-z]{3}", "\\w+"}
       [] w = "current" -> {"'?t", "\\b(?:my|current)\\b", "[a-z]{3}", "\\w+"}
       [] w = "delete" -> {"'?t", "\\b(?:forget|delete|remove|clear|wipe|reset)\\b", "[a-z]{3}", "\\w+"}
       [] w = "delta" -> {"'?t", "(?:united|american|delta|southwest|jetblue|alaska|spirit|frontier)", "a", "[a-z]{3}", "\\w+"}
       [] w = "departure" -> {"'?t", "departures?", "a", "[a-z]{3}", "\\w+"}
       [] w = "departure_time)" -> {"'?t", "i", "departures?", "a", "[a-z]{3}", "\\w+"}
       [] w = "departures" -> {"'?t", "departures?", "a", "[a-z]{3}", "\\w+"}
       [] w = "direct" -> {"'?t", "i", "direct", "[a-z]{3}", "\\w+"}
       [] w = "do" -> {"do", "\\w+"}
       [] w = "don't" -> {"don'?t", "don", "'?t", "do", "don't", "[a-z]{3}", "\\w+"}
       [] w = "dont" -> {"don'?t", "don", "'?t", "do", "[a-z]{3}", "\\w+"}
       [] w = "early" -> {"early", "(?:early|late|morning|afternoon|evening)", "a", "[a-z]{3}", "\\w+"}
       [] w = "economy" -> {"(?:no|avoid|hate)", "(?:no|avoid)", "economy", "\\beconomy\\b", "[a-z]{3}", "\\w+"}
       [] w = "evening" -> {"in", "i", "evenings?\\b", "evening", "(?:early|late|morning|afternoon|evening)", "[a-z]{3}", "\\w+"}
       [] w = "evenings" -> {"in", "i", "evenings?\\b", "evening", "(?:early|late|morning|afternoon|evening)", "[a-z]{3}", "\\w+"}
       [] w = "everything" -> {"'?t", "in", "i", "[a-z]{3}", "\\w+"}
       [] w = "exit" -> {"'?t", "i", "exit", "[a-z]{3}", "\\w+"}
       [] w = "extra" -> {"'?t", "(?:extra|checked)", "a", "[a-z]{3}", "\\w+"}
       [] w = "eye" -> {"-?eye", "[a-z]{3}", "\\w+"}
       [] w = "family" -> {"i", "(?:family|kids|children)", "a", "[a-z]{3}", "\\w+"}
       [] w = "find" -> {"in", "i", "(?:find|want|need)", "\\b(?:find|search|show|book|get|lookup|pullup)\\b", "[a-z]{3}", "\\w+"}
       [] w = "fine" -> {"in", "i", "[a-z]{3}", "\\w+"}
       [] w = "first" -> {"'?t", "i", "\\bfirst\\b", "[a-z]{3}", "\\w+"}
       [] w = "flight" -> {"'?t", "i", "flights?", "light", "[a-z]{3}", "\\w+", "flight"}
       [] w = "flights" -> {"'?t", "i", "flights?", "(?:only|flights|preferred)", "light", "[a-z]{3}", "\\w+", "flight"}
       [] w = "fly" -> {"(?:fly|flying)", "(?:prefer|fly|love)", "[a-z]{3}", "\\w+"}
       [] w = "flying" -> {"flying", "in", "i", "(?:fly|flying)", "(?:prefer|fly|love)", "[a-z]{3}", "\\w+"}
       [] w = "for" -> {"for", "[a-z]{3}", "\\w+"}
       [] w = "forget" -> {"'?t", "for", "\\b(?:forget|delete|remove|clear|wipe|reset)\\b", "[a-z]{3}", "\\w+"}
       [] w = "friendly" -> {"i", "friendly\\b", "[a-z]{3}", "\\w+"}
       [] w = "from" -> {"\\bfrom\\b", "from", "[a-z]{3}", "\\w+"}
       [] w = "general" -> {"a", "[a-z]{3}", "\\w+"}
       [] w = "general)" -> {"a", "[a-z]{3}", "\\w+"}
       [] w = "get" -> {"'?t", "\\b(?:find|search|show|book|get|lookup|pullup)\\b", "[a-z]{3}", "\\w+"}
       [] w = "hate" -> {"(?:hate|avoid)", "'?t", "(?:avoid|hate)", "(?:no|avoid|hate)", "a", "[a-z]{3}", "\\w+"}
       [] w = "home" -> {"[a-z]{3}", "\\w+"}
       [] w = "houston" -> {"'?t", "to", "[a-z]{3}", "\\w+"}
       [] w = "i" -> {"i", "\\w+"}
       [] w = "i'm" -> {"i", "\\w+"}
       [] w = "in" -> {"in", "i", "\\bin", "\\w+"}
       [] w = "is" -> {"i", "\\w+"}
       [] w = "jfk" -> {"[a-z]{3}", "\\w+"}
       [] w = "kids" -> {"i", "(?:family|kids|children)", "[a-z]{3}", "\\w+"}
       [] w = "late" -> {"'?t", "late", "(?:early|late|morning|afternoon|evening)", "a", "[a-z]{3}", "\\w+"}
       [] w = "lax" -> {"a", "[a-z]{3}", "\\w+"}
       [] w = "layover" -> {"layovers?", "a", "[a-z]{3}", "\\w+"}
       [] w = "layovers" -> {"layovers?", "a", "[a-z]{3}", "\\w+"}
       [] w = "light" -> {"'?t", "i", "light", "[a-z]{3}", "\\w+"}
       [] w = "like" -> {"like", "i", "(?:prefer|like|love|want)", "[a-z]{3}", "\\w+"}
       [] w = "likes" -> {"like", "i", "(?:prefer|like|love|want)", "[a-z]{3}", "\\w+"}
       [] w = "list" -> {"'?t", "i", "\\b(?:what|show|list|tell)\\b", "[a-z]{3}", "\\w+"}
       [] w = "look" -> {"ok", "\\blook", "[a-z]{3}", "\\w+"}
       [] w = "looking" -> {"in", "i", "ok", "\\blook", "[a-z]{3}", "\\w+"}
       [] w = "love" -> {"(?:prefer|like|love|want)", "(?:prefer|fly|love)", "[a-z]{3}", "\\w+"}
       [] w = "luggage" -> {"a", "[a-z]{3}", "\\w+"}
       [] w = "luxury" -> {"[a-z]{3}", "\\w+"}
       [] w = "max" -> {"a", "[a-z]{3}", "\\w+"}
       [] w = "middle" -> {"i", "(?:middle|center)", "[a-z]{3}", "\\w+"}
       [] w = "mind" -> {"in", "i", "mind", "[a-z]{3}", "\\w+"}
       [] w = "minimal" -> {"in", "i", "minimal", "a", "[a-z]{3}", "\\w+"}
       [] w = "morning" -> {"in", "i", "mornings?\\b", "morning", "(?:early|late|morning|afternoon|evening)", "\\bmornings?\\b", "[a-z]{3}", "\\w+"}
       [] w = "mornings" -> {"in", "i", "mornings?\\b", "morning", "(?:early|late|morning|afternoon|evening)", "\\bmornings?\\b", "[a-z]{3}", "\\w+"}
       [] w = "multiple" -> {"'?t", "i", "(?:one|1|multiple|some)", "[a-z]{3}", "\\w+"}
       [] w = "my" -> {"\\b(?:my|current)\\b", "\\w+"}
       [] w = "need" -> {"(?:prefer|want|need)", "(?:find|want|need)", "(?:need|require)", "[a-z]{3}", "\\w+"}
       [] w = "needed" -> {"(?:prefer|want|need)", "(?:find|want|need)", "(?:need|require)", "[a-z]{3}", "\\w+"}
       [] w = "never" -> {"[a-z]{3}", "\\w+"}
       [] w = "no" -> {"(?:no|avoid|hate)", "(?:no|avoid)", "\\w+"}
       [] w = "non-stop" -> {"'?t", "to", "(?:no|avoid|hate)", "non-?stop", "(?:no|avoid)", "[a-z]{3}", "\\w+"}
       [] w = "nonstop" -> {"'?t", "to", "(?:no|avoid|hate)", "non-?stop", "(?:no|avoid)", "[a-z]{3}", "\\w+"}
       [] w = "not" -> {"'?t", "not", "(?:no|avoid|hate)", "(?:no|avoid)", "[a-z]{3}", "\\w+"}
       [] w = "ok" -> {"ok", "\\w+"}
       [] w = "okay" -> {"ok", "a", "[a-z]{3}", "\\w+"}
       [] w = "on" -> {"\\bon", "\\w+"}
       [] w = "one" -> {"(?:one|1|multiple|some)", "\\bon", "[a-z]{3}", "\\w+"}
       [] w = "one-way" -> {"(?:one|1|multiple|some)", "\\bon", "a", "[a-z]{3}", "\\w+"}
       [] w = "only" -> {"(?:only|flights|preferred)", "only", "\\bon", "[a-z]{3}", "\\w+"}
       [] w = "other" -> {"'?t", "the", "other", "[a-z]{3}", "\\w+"}
       [] w = "packer" -> {"packer", "a", "[a-z]{3}", "\\w+"}
       [] w = "partner" -> {"'?t", "(?:partner|spouse)", "a", "[a-z]{3}", "\\w+"}
       [] w = "passenger)" -> {"a", "as", "[a-z]{3}", "\\w+"}
       [] w = "please" -> {"a", "as", "[a-z]{3}", "\\w+"}
       [] w = "possible" -> {"i", "possible\\b", "[a-z]{3}", "\\w+"}
       [] w = "prefer" -> {"(?:prefer|like|love|want)", "(?:prefer|want|need)", "(?:prefer|fly|love)", "(?:prefer|want)", "[a-z]{3}", "\\w+"}
       [] w = "preference" -> {"(?:prefer|like|love|want)", "(?:prefer|want|need)", "(?:prefer|fly|love)", "(?:prefer|want)", "\\b(?:preferences|preference)\\b", "[a-z]{3}", "\\w+"}
       [] w = "preference:" -> {"(?:prefer|like|love|want)", "(?:prefer|want|need)", "(?:prefer|fly|love)", "(?:prefer|want)", "\\b(?:preferences|preference)\\b", "[a-z]{3}", "\\w+"}
       [] w = "preferences" -> {"(?:prefer|like|love|want)", "(?:prefer|want|need)", "(?:prefer|fly|love)", "(?:prefer|want)", "\\b(?:preferences|preference)\\b", "[a-z]{3}", "\\w+"}
       [] w = "preferred" -> {"(?:prefer|like|love|want)", "(?:prefer|want|need)", "(?:prefer|fly|love)", "(?:prefer|want)", "(?:only|flights|preferred)", "red", "[a-z]{3}", "\\w+"}
       [] w = "prefers" -> {"(?:prefer|like|love|want)", "(?:prefer|want|need)", "(?:prefer|fly|love)", "(?:prefer|want)", "[a-z]{3}", "\\w+"}
       [] w = "premium" -> {"i", "premium", "[a-z]{3}", "\\w+"}
       [] w = "price" -> {"i", "[a-z]{3}", "\\w+"}
       [] w = "pull" -> {"\\bpull", "[a-z]{3}", "\\w+"}
       [] w = "red" -> {"red", "[a-z]{3}", "\\w+"}
       [] w = "red-eye" -> {"red-?eye", "red", "-?eye", "[a-z]{3}", "\\w+"}
       [] w = "red-eye:" -> {"red-?eye", "red", "-?eye", "[a-z]{3}", "\\w+"}
       [] w = "redeye" -> {"red-?eye", "red", "-?eye", "redeye", "[a-z]{3}", "\\w+"}
       [] w = "remove" -> {"\\b(?:forget|delete|remove|clear|wipe|reset)\\b", "[a-z]{3}", "\\w+"}
       [] w = "require" -> {"i", "(?:need|require)", "[a-z]{3}", "\\w+"}
       [] w = "reset" -> {"'?t", "\\b(?:forget|delete|remove|clear|wipe|reset)\\b", "[a-z]{3}", "\\w+"}
       [] w = "return" -> {"'?t", "[a-z]{3}", "\\w+"}
       [] w = "round" -> {"[a-z]{3}", "\\w+"}
       [] w = "round-trip" -> {"'?t", "i", "[a-z]{3}", "\\w+"}
       [] w = "row" -> {"row", "[a-z]{3}", "\\w+"}
       [] w = "search" -> {"search", "a", "\\b(?:find|search|show|book|get|lookup|pullup)\\b", "[a-z]{3}", "\\w+"}
       [] w = "searched" -> {"search", "a", "[a-z]{3}", "\\w+"}
       [] w = "seat" -> {"'?t", "seats?", "a", "[a-z]{3}", "\\w+"}
       [] w = "seat:" -> {"'?t", "seats?", "a", "[a-z]{3}", "\\w+"}
       [] w = "seats" -> {"'?t", "seats?", "a", "[a-z]{3}", "\\w+"}
       [] w = "show" -> {"\\b(?:find|search|show|book|get|lookup|pullup)\\b", "\\b(?:what|show|list|tell)\\b", "[a-z]{3}", "\\w+"}
       [] w = "significant" -> {"'?t", "i", "significant", "a", "[a-z]{3}", "\\w+"}
       [] w = "solo" -> {"(?:alone|solo)", "[a-z]{3}", "\\w+"}
       [] w = "some" -> {"(?:one|1|multiple|some)", "[a-z]{3}", "\\w+"}
       [] w = "southwest" -> {"'?t", "(?:united|american|delta|southwest|jetblue|alaska|spirit|frontier)", "[a-z]{3}", "\\w+"}
       [] w = "spouse" -> {"(?:partner|spouse)", "[a-z]{3}", "\\w+"}
       [] w = "stopover" -> {"'?t", "to", "[a-z]{3}", "\\w+"}
       [] w = "stops" -> {"'?t", "to", "[a-z]{3}", "\\w+"}
       [] w = "stops:" -> {"'?t", "to", "[a-z]{3}", "\\w+"}
       [] w = "style" -> {"'?t", "[a-z]{3}", "\\w+"}
       [] w = "take" -> {"'?t", "a", "[a-z]{3}", "\\w+"}
       [] w = "tell" -> {"'?t", "\\b(?:what|show|list|tell)\\b", "[a-z]{3}", "\\w+"}
       [] w = "the" -> {"'?t", "the", "[a-z]{3}", "\\w+"}
       [] w = "tight" -> {"'?t", "i", "\\btight", "[a-z]{3}", "\\w+"}
       [] w = "time" -> {"'?t", "i", "[a-z]{3}", "\\w+"}
       [] w = "time:" -> {"'?t", "i", "[a-z]{3}", "\\w+"}
       [] w = "to" -> {"'?t", "to", "\\bto\\b", "\\w+"}
       [] w = "travel" -> {"'?t", "travel", "a", "[a-z]{3}", "\\w+"}
       [] w = "travel:" -> {"'?t", "travel", "a", "[a-z]{3}", "\\w+"}
       [] w = "traveled" -> {"'?t", "travel", "a", "[a-z]{3}", "\\w+"}
       [] w = "traveling" -> {"'?t", "in", "i", "travel", "a", "[a-z]{3}", "\\w+"}
       [] w = "trip" -> {"'?t", "i", "[a-z]{3}", "\\w+"}
       [] w = "true" -> {"'?t", "[a-z]{3}", "\\w+"}
       [] w = "type:" -> {"'?t", "[a-z]{3}", "\\w+"}
       [] w = "united" -> {"'?t", "i", "(?:united|american|delta|southwest|jetblue|alaska|spirit|frontier)", "[a-z]{3}", "\\w+"}
       [] w = "up" -> {"up\\b", "\\w+"}
       [] w = "usd" -> {"[a-z]{3}", "\\w+", "(?:usd|eur|gbp|\\$)"}
       [] w = "user" -> {"[a-z]{3}", "\\w+"}
       [] w = "want" -> {"'?t", "(?:prefer|like|love|want)", "(?:prefer|want|need)", "(?:prefer|want)", "(?:find|want|need)", "a", "[a-z]{3}", "\\w+"}
       [] w = "way" -> {"a", "[a-z]{3}", "\\w+"}
       [] w = "what" -> {"'?t", "a", "\\b(?:what|show|list|tell)\\b", "[a-z]{3}", "\\w+"}
       [] w = "willing" -> {"in", "i", "[a-z]{3}", "\\w+"}
       [] w = "window" -> {"do", "in", "i", "(?:window|aisle)", "[a-z]{3}", "\\w+"}
       [] w = "window/aisle/exit" -> {"'?t", "do", "in", "i", "(?:window|aisle)", "exit", "a", "[a-z]{3}", "\\w+"}
       [] w = "wipe" -> {"i", "\\b(?:forget|delete|remove|clear|wipe|reset)\\b", "[a-z]{3}", "\\w+"}
       [] w = "with" -> {"'?t", "i", "with", "[a-z]{3}", "\\w+"}
       [] w = "without" -> {"'?t", "i", "with", "[a-z]{3}", "\\w+"}
       [] w = "x" -> {"\\w+"}
       [] w = "yes" -> {"[a-z]{3}", "\\w+"}
       [] OTHER -> {}]

(* The atoms that match somewhere in the lower-case word w (re.search). *)
ReInner(w) == IF w \in LowerVocabulary THEN ReInnerTable[w] ELSE {}

(* The quotients (value - min) / (max - min) of the offers' prices and minutes. *)
Quotients ==
  {<<0, 1>>, <<0, 45>>, <<0, 100>>, <<0, 105>>, <<0, 150>>, <<0, 200>>, <<0, 255>>, <<0, 300>>,
   <<0, 345>>, <<0, 400>>, <<0, 450>>, <<0, 500>>, <<0, 600>>, <<45, 45>>, <<45, 150>>, <<45, 300>>,
   <<100, 100>>, <<100, 200>>, <<100, 300>>, <<105, 105>>, <<105, 255>>, <<150, 150>>, <<150, 300>>, <<200, 200>>,
   <<200, 300>>, <<200, 400>>, <<200, 500>>, <<255, 255>>, <<300, 300>>, <<300, 345>>, <<300, 400>>, <<300, 450>>,
   <<300, 500>>, <<300, 600>>, <<345, 345>>, <<345, 450>>, <<345, 600>>, <<400, 400>>, <<400, 500>>, <<450, 450>>,
   <<450, 600>>, <<500, 500>>, <<600, 600>>}

NormTable ==
  [q \in Quotients |->
     CASE q \in {<<0, 1>>, <<0, 45>>, <<0, 100>>, <<0, 105>>, <<0, 150>>, <<0, 200>>, <<0, 255>>, <<0, 300>>, <<0, 345>>, <<0, 400>>, <<0, 450>>, <<0, 500>>, <<0, 600>>} -> 1
       [] q \in {<<45, 300>>} -> 2
       [] q \in {<<45, 150>>} -> 3
       [] q \in {<<100, 300>>} -> 4
       [] q \in {<<200, 500>>} -> 5
       [] q \in {<<105, 255>>} -> 6
       [] q \in {<<100, 200>>, <<150, 300>>, <<200, 400>>, <<300, 600>>} -> 7
       [] q \in {<<345, 600>>} -> 8
       [] q \in {<<300, 500>>} -> 9
       [] q \in {<<200, 300>>, <<300, 450>>} -> 10
       [] q \in {<<300, 400>>, <<450, 600>>} -> 11
       [] q \in {<<345, 450>>} -> 12
       [] q \in {<<400, 500>>} -> 13
       [] q \in {<<300, 345>>} -> 14
       [] q \in {<<45, 45>>, <<100, 100>>, <<105, 105>>, <<150, 150>>, <<200, 200>>, <<255, 255>>, <<300, 300>>, <<345, 345>>, <<400, 400>>, <<450, 450>>, <<500, 500>>, <<600, 600>>} -> 15
  ]

(* The float num / den, numbered in the order of the floats. *)
Norm(num, den) == NormTable[<<num, den>>]

ScoreTable ==
  [s \in {1, 4, 5, 7, 9, 10, 11, 13, 15} \X {1, 2, 3, 6, 7, 8, 10, 11, 12, 14, 15} |->
     CASE s \in {<<1, 1>>} -> 1
       [] s \in {<<1, 2>>} -> 2
       [] s \in {<<1, 3>>} -> 3
       [] s \in {<<1, 6>>} -> 4
       [] s \in {<<4, 1>>} -> 5
       [] s \in {<<1, 7>>} -> 6
       [] s \in {<<1, 8>>} -> 7
       [] s \in {<<5, 1>>} -> 8
       [] s \in {<<4, 2>>} -> 9
       [] s \in {<<1, 10>>} -> 10
       [] s \in {<<5, 2>>, <<7, 1>>} -> 11
       [] s \in {<<1, 11>>} -> 12
       [] s \in {<<1, 12>>} -> 13
       [] s \in {<<4, 3>>} -> 14
       [] s \in {<<1, 14>>} -> 15
       [] s \in {<<5, 3>>, <<7, 2>>, <<9, 1>>} -> 16
       [] s \in {<<4, 6>>} -> 17
       [] s \in {<<10, 1>>} -> 18
       [] s \in {<<1, 15>>, <<4, 7>>} -> 19
       [] s \in {<<5, 6>>} -> 20
       [] s \in {<<7, 3>>, <<9, 2>>} -> 21
       [] s \in {<<4, 8>>} -> 22
       [] s \in {<<5, 7>>} -> 23
       [] s \in {<<11, 1>>} -> 24
       [] s \in {<<10, 2>>} -> 25
       [] s \in {<<7, 6>>} -> 26
       [] s \in {<<4, 10>>} -> 27
       [] s \in {<<5, 8>>} -> 28
       [] s \in {<<9, 3>>, <<13, 1>>} -> 29
       [] s \in {<<4, 11>>, <<7, 7>>} -> 30
       [] s \in {<<5, 10>>} -> 31
       [] s \in {<<4, 12>>} -> 32
       [] s \in {<<11, 2>>} -> 33
       [] s \in {<<10, 3>>} -> 34
       [] s \in {<<9, 6>>} -> 35
       [] s \in {<<7, 8>>} -> 36
       [] s \in {<<5, 11>>, <<13, 2>>} -> 37
       [] s \in {<<5, 12>>} -> 38
       [] s \in {<<4, 14>>} -> 39
       [] s \in {<<9, 7>>} -> 40
       [] s \in {<<10, 6>>} -> 41
       [] s \in {<<7, 10>>} -> 42
       [] s \in {<<11, 3>>} -> 43
       [] s \in {<<5, 14>>} -> 44
       [] s \in {<<9, 8>>} -> 45
       [] s \in {<<4, 15>>, <<10, 7>>, <<13, 3>>, <<15, 1>>} -> 46
       [] s \in {<<7, 11>>} -> 47
       [] s \in {<<7, 12>>} -> 48
       [] s \in {<<11, 6>>} -> 49
       [] s \in {<<9, 10>>} -> 50
       [] s \in {<<10, 8>>} -> 51
       [] s \in {<<5, 15>>} -> 52
       [] s \in {<<13, 6>>} -> 53
       [] s \in {<<7, 14>>} -> 54
       [] s \in {<<11, 7>>} -> 55
       [] s \in {<<15, 2>>} -> 56
       [] s \in {<<9, 11>>} -> 57
       [] s \in {<<10, 10>>} -> 58
       [] s \in {<<9, 12>>} -> 59
       [] s \in {<<11, 8>>, <<13, 7>>} -> 60
       [] s \in {<<7, 15>>, <<10, 11>>} -> 61
       [] s \in {<<10, 12>>} -> 62
       [] s \in {<<9, 14>>} -> 63
       [] s \in {<<13, 8>>} -> 64
       [] s \in {<<11, 10>>} -> 65
       [] s \in {<<15, 3>>} -> 66
       [] s \in {<<13, 10>>} -> 67
       [] s \in {<<10, 14>>} -> 68
       [] s \in {<<11, 11>>} -> 69
       [] s \in {<<11, 12>>} -> 70
       [] s \in {<<9, 15>>} -> 71
       [] s \in {<<15, 6>>} -> 72
       [] s \in {<<13, 11>>} -> 73
       [] s \in {<<13, 12>>} -> 74
       [] s \in {<<11, 14>>} -> 75
       [] s \in {<<10, 15>>, <<15, 7>>} -> 76
       [] s \in {<<13, 14>>} -> 77
       [] s \in {<<15, 8>>} -> 78
       [] s \in {<<11, 15>>} -> 79
       [] s \in {<<15, 10>>} -> 80
       [] s \in {<<13, 15>>} -> 81
       [] s \in {<<15, 11>>} -> 82
       [] s \in {<<15, 12>>} -> 83
       [] s \in {<<15, 14>>} -> 84
       [] s \in {<<15, 15>>} -> 85
  ]

(* The float 0.6 * price_norm + 0.4 * dur_norm, numbered in the order of the floats. *)
FloatScore(price_norm, dur_norm) == ScoreTable[<<price_norm, dur_norm>>]
\* ---- end word tables

(***************************************************************************)
(* Text primitives.                                                        *)
(***************************************************************************)

(* Python's None. *)
None == "None"

(* str.strip(): white space removed at both ends. *)
RECURSIVE LStrip(_)
LStrip(t) == IF t # <<>> /\ Head(t) = " " THEN LStrip(Tail(t)) ELSE t

RECURSIVE RStrip(_)
RStrip(t) ==
  IF t # <<>> /\ t[Len(t)] = " " THEN RStrip(SubSeq(t, 1, Len(t) - 1)) ELSE t

Strip(t) == RStrip(LStrip(t))

(* str.lower(). *)
Lower(t) == [i \in DOMAIN t |-> LowerWord(t[i])]

(* `kw in text` for a lower-case text and a keyword of one or more words:  *)
(* a one-word keyword is a substring of some word; a keyword of several    *)
(* words ends one word, equals the words between and starts the last.      *)
In(kw, lower) ==
  IF Len(kw) = 1
  THEN \E i \in DOMAIN lower : kw[1] \in SubWords(lower[i])
  ELSE \E i \in 1..(Len(lower) - Len(kw) + 1) :
         /\ kw[1] \in SufWords(lower[i])
         /\ \A j \in 2..(Len(kw) - 1) : lower[i + j - 1] = kw[j]
         /\ kw[Len(kw)] \in PreWords(lower[i + Len(kw) - 1])

(* `"no " in text`: a word that ends with the keyword and is followed by a blank. *)
InSp(w, lower) == \E i \in 1..(Len(lower) - 1) : w \in SufWords(lower[i])

(* any(kw in text for kw in kws) *)
AnyIn(kws, lower) == \E kw \in kws : In(kw, lower)

(***************************************************************************)
(* The canonicalizer (memory_manager.py).                                  *)
(***************************************************************************)

(* _strip_preference_wrappers: a leading "Travel Preference:" or           *)
(* "Preference:" and a trailing "(Type: x)" are removed.                   *)
StripLeadingWrapper(t) ==
  LET after == {j \in 2..Len(t) : t[j] # " "}
      next == CHOOSE j \in after : \A k \in after : j <= k
  IN
  IF t # <<>> /\ LowerWord(t[1]) = "travel" /\ after # {} /\ LowerWord(t[next]) = "preference:"
  THEN SubSeq(t, next + 1, Len(t))
  ELSE IF Len(t) >= 1 /\ LowerWord(t[1]) = "preference:"
  THEN SubSeq(t, 2, Len(t))
  ELSE t

(* The words of the vocabulary that hold a ")": they end with it. *)
TypeAnnotationEnd == {"cabin_class)", "passenger)", "departure_time)", "General)"}

(* re.sub(r"\s*\(\s*type\s*:\s*[^)]+\)\s*$", "", text, IGNORECASE): the text  *)
(* is cut at the first "(type:" that no ")" follows before the last word.  *)
StripTrailingType(t) ==
  LET Opens(j) == /\ LowerWord(t[j]) = "(type:"
                  /\ \A k \in (j + 1)..(Len(t) - 1) : t[k] \notin TypeAnnotationEnd
      opening == {j \in 1..(Len(t) - 1) : Opens(j)}
  IN IF t # <<>> /\ t[Len(t)] \in TypeAnnotationEnd /\ opening # {}
     THEN SubSeq(t, 1, (CHOOSE j \in opening : \A k \in opening : j <= k) - 1)
     ELSE t

_strip_preference_wrappers(memory_text) ==
  Strip(StripTrailingType(StripLeadingWrapper(Strip(memory_text))))

LeadingVerbs == {"prefer", "like", "love", "want", "need"}

(* re.sub(r"^\s*i\s+(prefer|like|love|want|need)\s+", "", t, IGNORECASE).strip() *)
StripLeadingPhrasing(t) ==
  IF Len(t) >= 3 /\ LowerWord(t[1]) = "i" /\ LowerWord(t[2]) \in LeadingVerbs
  THEN SubSeq(t, 3, Len(t))
  ELSE t

CabinOf(lower) ==
  IF In(<<"premium", "economy">>, lower) \/ (In(<<"premium">>, lower) /\ In(<<"economy">>, lower))
  THEN "Premium Economy"
  ELSE IF In(<<"business">>, lower) THEN "Business"
  ELSE IF In(<<"first">>, lower) THEN "First"
  ELSE IF In(<<"economy">>, lower) THEN "Economy"
  ELSE None

CabinLabel(cabin) ==
  IF cabin = "Premium Economy" THEN <<"Cabin", "class:", "Premium", "Economy">>
  ELSE <<"Cabin", "class:", cabin>>

DepartureNegative(lower) ==
  \/ AnyIn({<<"hate">>, <<"avoid">>, <<"don't", "like">>, <<"dont", "like">>,
            <<"do", "not", "like">>, <<"never">>}, lower)
  \/ InSp("no", lower)

RedEyeLabelPlain == <<"Red-eye:", "Prefer", "to", "avoid">>

RedEyeLabel(lower) ==
  IF AnyIn({<<"avoid">>, <<"never">>, <<"hate">>}, lower) \/ InSp("no", lower)
  THEN <<"Red-eye:", "Avoid">>
  ELSE RedEyeLabelPlain

_canonicalize_preference_text(core_text) ==
  LET t == Strip(core_text)
      lower == Lower(t)
      cabin == CabinOf(lower)
  IN
  \* Cabin class
  IF cabin # None /\ AnyIn({<<"class">>, <<"cabin">>, <<"flights">>}, lower)
  THEN CabinLabel(cabin)
  \* Trip type
  ELSE IF In(<<"one-way">>, lower) \/ In(<<"one", "way">>, lower)
  THEN <<"Trip", "type:", "One-way">>
  ELSE IF In(<<"round", "trip">>, lower) \/ In(<<"round-trip">>, lower) \/ In(<<"return">>, lower)
  THEN <<"Trip", "type:", "Round", "trip">>
  \* Stops / flight type
  ELSE IF In(<<"nonstop">>, lower) \/ In(<<"non-stop">>, lower) \/ In(<<"direct">>, lower)
  THEN <<"Stops:", "Direct", "only">>
  ELSE IF /\ AnyIn({<<"layover">>, <<"stopover">>, <<"stops">>}, lower)
          /\ (AnyIn({<<"avoid">>, <<"without">>, <<"hate">>}, lower) \/ InSp("no", lower))
  THEN <<"Stops:", "Avoid", "layovers">>
  ELSE IF /\ AnyIn({<<"layover">>, <<"stopover">>, <<"stops">>}, lower)
          /\ AnyIn({<<"ok">>, <<"okay">>, <<"fine">>, <<"don't", "mind">>,
                    <<"dont", "mind">>, <<"willing">>}, lower)
  THEN <<"Stops:", "Layovers", "OK">>
  \* Departure time
  ELSE IF In(<<"morning">>, lower)
  THEN IF DepartureNegative(lower) THEN <<"Departure", "time:", "Avoid", "morning">>
       ELSE <<"Departure", "time:", "Morning">>
  ELSE IF In(<<"afternoon">>, lower)
  THEN IF DepartureNegative(lower) THEN <<"Departure", "time:", "Avoid", "afternoon">>
       ELSE <<"Departure", "time:", "Afternoon">>
  ELSE IF In(<<"evening">>, lower)
  THEN IF DepartureNegative(lower) THEN <<"Departure", "time:", "Avoid", "evening">>
       ELSE <<"Departure", "time:", "Evening">>
  \* Red-eye
  ELSE IF In(<<"red-eye">>, lower) \/ In(<<"red", "eye">>, lower)
  THEN RedEyeLabel(lower)
  \* Seats
  ELSE IF In(<<"window">>, lower) THEN <<"Seat:", "Window">>
  ELSE IF In(<<"aisle">>, lower) THEN <<"Seat:", "Aisle">>
  ELSE IF In(<<"exit", "row">>, lower) THEN <<"Seat:", "Exit", "row">>
  ELSE IF /\ (In(<<"middle">>, lower) \/ In(<<"center">>, lower))
          /\ \/ AnyIn({<<"avoid">>, <<"never">>, <<"hate">>, <<"don't", "like">>,
                       <<"dont", "like">>}, lower)
             \/ InSp("no", lower)
  THEN <<"Seat:", "Avoid", "middle">>
  \* Baggage
  ELSE IF In(<<"carry-on">>, lower) \/ In(<<"cabin", "baggage">>, lower)
  THEN <<"Baggage:", "Carry-on", "only">>
  ELSE IF In(<<"checked">>, lower) THEN <<"Baggage:", "Checked", "bag">>
  ELSE IF In(<<"extra", "baggage">>, lower) THEN <<"Baggage:", "Extra", "baggage">>
  \* Passenger
  ELSE IF \/ In(<<"traveling", "alone">>, lower) \/ In(<<"travelling", "alone">>, lower)
          \/ In(<<"solo">>, lower)
  THEN <<"Travel:", "Solo">>
  ELSE IF In(<<"with", "family">>, lower) \/ In(<<"kids">>, lower) \/ In(<<"children">>, lower)
  THEN <<"Travel:", "With", "family">>
  ELSE IF In(<<"with", "partner">>, lower) \/ In(<<"spouse">>, lower)
  THEN <<"Travel:", "With", "partner">>
  \* Airline and anything else: kept, the leading phrasing stripped.
  ELSE StripLeadingPhrasing(t)

(***************************************************************************)
(* Variable groups and the values the groups a specification does not use  *)
(* are held at.                                                            *)
(***************************************************************************)
storeVars == <<prefs, clock, op, latest, bookings>>
concVars == <<pc, job>>
canonVars == <<phrase, canon>>
chatVars == <<message, extracted>>
resolveVars == <<fuzzy, ui, args, resolved>>
rankVars == <<offers, tagged>>
filterVars == <<fetched, wanted, outcome>>
toolVars == <<upstream, reply>>

NoOp == [name |-> "none", userId |-> None, type |-> None, deleted |-> 0]
StoreIdle == prefs = {} /\ clock = 0 /\ op = NoOp /\ latest = {} /\ bookings = {}
ConcIdle == pc = <<>> /\ job = <<>>
CanonIdle == phrase = <<>> /\ canon = <<>>
NoChat == [path |-> "none", returned |-> <<>>, persisted |-> <<>>]
ChatIdle == message = <<>> /\ extracted = NoChat
ResolveIdle ==
  /\ fuzzy = <<>>
  /\ ui = [cabinClass |-> <<>>, directFlightsOnly |-> FALSE, avoidRedEye |-> FALSE]
  /\ args = [travel_class |-> None, non_stop |-> [kind |-> "absent", value |-> ""], adults |-> 1]
  /\ resolved = [step |-> "none", summary |-> <<>>, overrides |-> <<>>, request |-> <<>>]
RankIdle == offers = <<>> /\ tagged = <<>>
NoReturn == [step |-> "none", data |-> <<>>]
FilterIdle == fetched = <<>> /\ wanted = <<>> /\ outcome = NoReturn
NoUpstream == [kind |-> "none", error |-> "", data |-> <<>>]
NoReply == [step |-> "none", error |-> "", flights |-> <<>>, tagger |-> "not run"]
ToolIdle == upstream = NoUpstream /\ reply = NoReply

(***************************************************************************)
(* SpecCanon: the canonicalizer applied to a phrase and to its own result. *)
(***************************************************************************)

(* The longest phrase built word by word. *)
MaxPhraseLen == 2

PhraseWords ==
  {"I", "prefer", "premium", "economy", "business", "first", "class", "flights",
   "one-way", "direct", "layovers", "avoid", "no", "ok", "morning", "red-eye",
   "window", "middle", "checked", "solo", "with", "family", "Delta", "hate", " "}

(* The labels the extractor and the canonicalizer produce. *)
CanonicalLabels ==
  {<<"Cabin", "class:", "Premium", "Economy">>, <<"Cabin", "class:", "Business">>,
   <<"Cabin", "class:", "First">>, <<"Cabin", "class:", "Economy">>,
   <<"Trip", "type:", "One-way">>, <<"Trip", "type:", "Round", "trip">>,
   <<"Stops:", "Direct", "only">>, <<"Stops:", "Avoid", "layovers">>,
   <<"Stops:", "Layovers", "OK">>,
   <<"Departure", "time:", "Avoid", "morning">>, <<"Departure", "time:", "Morning">>,
   <<"Departure", "time:", "Avoid", "afternoon">>, <<"Departure", "time:", "Afternoon">>,
   <<"Departure", "time:", "Avoid", "evening">>, <<"Departure", "time:", "Evening">>,
   <<"Red-eye:", "Avoid">>, <<"Red-eye:", "Prefer", "to", "avoid">>,
   <<"Seat:", "Window">>, <<"Seat:", "Aisle">>, <<"Seat:", "Exit", "row">>,
   <<"Seat:", "Avoid", "middle">>,
   <<"Baggage:", "Carry-on", "only">>, <<"Baggage:", "Checked", "bag">>,
   <<"Baggage:", "Extra", "baggage">>,
   <<"Travel:", "Solo">>, <<"Travel:", "With", "family">>, <<"Travel:", "With", "partner">>}

ExtractorLabels ==
  {<<"I", "prefer", "Premium", "Economy", "class", "flights">>,
   <<"I", "prefer", "Business", "class", "flights">>,
   <<"I", "prefer", "First", "Class", "flights">>,
   <<"I", "prefer", "Economy", "class", "flights">>,
   <<"window/aisle/exit", "row">>, <<"avoid", "middle", "seats">>,
   <<"window/aisle/exit", "row", "seats">>,
   <<"preferred", "airline">>, <<"avoid", "airline">>,
   <<"Avoid", "morning", "flights">>, <<"Avoid", "afternoon", "flights">>,
   <<"Avoid", "evening", "flights">>,
   <<"morning", "flights">>, <<"afternoon", "flights">>, <<"evening", "flights">>,
   <<"preferred", "departure", "time">>,
   <<"direct", "flights">>, <<"non-stop", "flights">>, <<"avoid", "layovers">>,
   <<"willing", "to", "take", "layovers">>,
   <<"traveling", "alone">>, <<"traveling", "with", "family">>,
   <<"traveling", "with", "partner">>,
   <<"light", "packer">>, <<"extra", "baggage", "needed">>, <<"carry-on", "only">>,
   <<"budget", "conscious">>, <<"Avoid", "red-eye", "flights">>}

InputPhrases ==
  UNION {[1..n -> PhraseWords] : n \in 0..MaxPhraseLen}
    \cup CanonicalLabels \cup ExtractorLabels

InitCanon ==
  /\ phrase \in InputPhrases
  /\ canon = <<>>
  /\ StoreIdle /\ ConcIdle /\ ChatIdle /\ ResolveIdle /\ RankIdle /\ FilterIdle /\ ToolIdle

(* canonical = _canonicalize_preference_text(phrase) *)
Canonicalize ==
  /\ canon = <<>>
  /\ canon' = <<_canonicalize_preference_text(phrase)>>
  /\ UNCHANGED <<phrase, storeVars, concVars, chatVars, resolveVars, rankVars, filterVars, toolVars>>

(* The canonicalizer applied to a text that is already its result, as the  *)
(* delete endpoint and summarize_preferences do with stored labels.        *)
CanonicalizeAgain ==
  /\ Len(canon) = 1
  /\ canon' = Append(canon, _canonicalize_preference_text(canon[1]))
  /\ UNCHANGED <<phrase, storeVars, concVars, chatVars, resolveVars, rankVars, filterVars, toolVars>>

NextCanon == Canonicalize \/ CanonicalizeAgain

SpecCanon == InitCanon /\ [][NextCanon]_vars

(* C5: canonicalize(canonicalize(x)) = canonicalize(x) for every phrase x. *)
C5_Idempotent == Len(canon) = 2 => canon[2] = canon[1]

(***************************************************************************)
(* Regular expressions (re.search on the lower-case message).  A pattern   *)
(* is the set of its word-level forms; a form is a sequence of atoms, one  *)
(* per word, an atom being the piece of the expression that holds no white *)
(* space.  Two atoms in a row stand for `atom\s+atom`.  The tables         *)
(* ReExact, RePrefix, ReSuffix and ReInner tabulate, for every lower-case  *)
(* word of Vocabulary, the atoms that match the whole word, a prefix, a    *)
(* suffix or any part of it.  An expression's `\s*` is either a blank, so  *)
(* that the next atom begins a word, or nothing, which the form without    *)
(* the optional words before it covers.                                    *)
(***************************************************************************)

(* `\s+` at the end of an expression: some white space follows. *)
Blank == "<blank>"
(* `[-\s]` between two atoms: exactly one blank. *)
OneBlank == "<one blank>"
(* `\s+.*` between two atoms: a blank and then any text. *)
AnyText == "<any text>"
(* `.+` between two atoms in different words. *)
Apart == "<apart>"

(* The forms of an expression built from parts, each part a set of         *)
(* alternatives (<<>> when the part is optional).                          *)
RECURSIVE Expand(_)
Expand(parts) ==
  IF parts = <<>> THEN {<<>>}
  ELSE {a \o rest : a \in Head(parts), rest \in Expand(Tail(parts))}

(* The atom matches the word; closed on a side where white space bounds it. *)
AtomAt(atom, w, leftClosed, rightClosed) ==
  IF leftClosed
  THEN IF rightClosed THEN atom \in ReExact(w) ELSE atom \in RePrefix(w)
  ELSE IF rightClosed THEN atom \in ReSuffix(w) ELSE atom \in ReInner(w)

RECURSIVE SkipBlank(_, _)
SkipBlank(words, i) ==
  IF i <= Len(words) /\ words[i] = " " THEN SkipBlank(words, i + 1) ELSE i

(* The atoms of the form from the k-th on match the words from the i-th on. *)
RECURSIVE MatchFrom(_, _, _, _, _)
MatchFrom(form, k, words, i, leftClosed) ==
  IF i > Len(words) THEN FALSE
  ELSE IF k = Len(form) THEN AtomAt(form[k], words[i], leftClosed, FALSE)
  ELSE IF form[k + 1] = Blank
  THEN AtomAt(form[k], words[i], leftClosed, TRUE) /\ i < Len(words)
  ELSE IF form[k + 1] = OneBlank
  THEN AtomAt(form[k], words[i], leftClosed, TRUE) /\ MatchFrom(form, k + 2, words, i + 1, TRUE)
  ELSE IF form[k + 1] = AnyText
  THEN /\ AtomAt(form[k], words[i], leftClosed, TRUE)
       /\ \E j \in (i + 1)..Len(words) : MatchFrom(form, k + 2, words, j, FALSE)
  ELSE IF form[k + 1] = Apart
  THEN /\ AtomAt(form[k], words[i], leftClosed, FALSE)
       /\ \E j \in (i + 1)..Len(words) : MatchFrom(form, k + 2, words, j, FALSE)
  ELSE /\ AtomAt(form[k], words[i], leftClosed, TRUE)
       /\ MatchFrom(form, k + 1, words, SkipBlank(words, i + 1), TRUE)

(* re.search(pattern, lower) is not None *)
Search(pattern, lower) ==
  \E form \in pattern : \E i \in DOMAIN lower : MatchFrom(form, 1, lower, i, FALSE)

(***************************************************************************)
(* The pattern extractor (agent.py, extract_preferences_from_message).     *)
(***************************************************************************)

\* ---- begin patterns
(* (?:hate|avoid|don\s*'?t\s+like|do\s+not\s+like) *)
AvoidHead ==
  {<<"(?:hate|avoid)">>, <<"don'?t", "like">>, <<"don", "'?t", "like">>, <<"do", "not", "like">>}

(* (?:flying\s+)?(?:in\s+the\s+)? *)
FlyingInThe == <<{<<>>, <<"flying">>}, {<<>>, <<"in", "the">>}>>

(* (?:i\s+)?(?:prefer|like|love|want)\s+(?:to\s+)?(?:fly|flying)\s+(?:in\s+the\s+)? *)
LikeToFly ==
  <<{<<>>, <<"i">>}, {<<"(?:prefer|like|love|want)">>}, {<<>>, <<"to">>},
    {<<"(?:fly|flying)">>}, {<<>>, <<"in", "the">>}>>

(* (?:window|aisle|exit\s+row) *)
SeatKind == {<<"(?:window|aisle)">>, <<"exit", "row">>}

(* (?:avoid|don't\s+like|hate) *)
DislikeHead == {<<"(?:avoid|hate)">>, <<"don't", "like">>}

seat_patterns ==
  <<Expand(<<{<<>>, <<"i">>}, {<<"(?:prefer|want|need)">>}, SeatKind, {<<"seats?">>}>>),
    Expand(<<{<<"(?:no|avoid|hate)">>, <<"don't", "like">>}, {<<"(?:middle|center)", "seats?">>}>>),
    Expand(<<SeatKind, {<<"seats?">>}>>)>>

airline_patterns ==
  <<Expand(<<{<<>>, <<"i">>}, {<<"(?:prefer|fly|love)">>}, {<<>>, <<"with">>},
             {<<"(?:united|american|delta|southwest|jetblue|alaska|spirit|frontier)">>}>>),
    Expand(<<DislikeHead,
             {<<"(?:united|american|delta|southwest|jetblue|alaska|spirit|frontier)">>}>>)>>

time_patterns ==
  <<Expand(<<AvoidHead>> \o FlyingInThe \o <<{<<"mornings?\\b">>}>>),
    Expand(<<AvoidHead>> \o FlyingInThe \o <<{<<"afternoons?\\b">>}>>),
    Expand(<<AvoidHead>> \o FlyingInThe \o <<{<<"evenings?\\b">>}>>),
    Expand(<<AvoidHead, {<<>>, <<"early">>}, {<<"morning", "flights?">>}>>),
    Expand(<<AvoidHead, {<<"afternoon", "flights?">>}>>),
    Expand(<<AvoidHead, {<<>>, <<"late">>}, {<<"evening", "flights?">>}>>),
    Expand(LikeToFly \o <<{<<"mornings?\\b">>}>>),
    Expand(LikeToFly \o <<{<<"afternoons?\\b">>}>>),
    Expand(LikeToFly \o <<{<<"evenings?\\b">>}>>),
    Expand(<<{<<>>, <<"early">>}, {<<"morning", "flights?">>}>>),
    {<<"late", "evening", "flights?">>},
    {<<"afternoon", "flights?">>},
    {<<"(?:prefer|want)", "(?:early|late|morning|afternoon|evening)", "departures?">>},
    {<<"\\bin", "the", "mornings?\\b">>, <<"\\bmornings?\\b">>}>>

flight_patterns ==
  <<Expand(<<{<<>>, <<"(?:find|want|need)">>, <<"search", "for">>}, {<<"direct", "flights?">>}>>),
    {<<"non-?stop", Blank>>, <<"non-?stop", "(?:only|flights|preferred)">>},
    {<<"(?:no|avoid)", "layovers?">>},
    Expand(<<{<<>>, <<"don't">>}, {<<"mind">>, <<"ok", "with">>},
             {<<"layovers?">>, <<"(?:one|1|multiple|some)", "layovers?">>,
              <<"(?:one|1|multiple|some)layovers?">>}>>)>>

passenger_patterns ==
  <<Expand(<<{<<>>, <<"i">>}, {<<>>, <<"travel">>}, {<<"(?:alone|solo)">>}>>),
    Expand(<<{<<>>, <<"with">>}, {<<"(?:family|kids|children)">>}>>),
    Expand(<<{<<>>, <<"with">>}, {<<"(?:partner|spouse)">>, <<"significant", "other">>}>>)>>

baggage_patterns ==
  <<{<<"packer">>, <<"light", "packer">>, <<"minimal", "baggage">>},
    {<<"(?:need|require)", "(?:extra|checked)", "baggage">>},
    {<<"cabin", "baggage", "only">>}>>

(* \b(on\s+a\s+budget|tight\s+budget|budget[-\s]?friendly|                *)
(*    budget[-\s]?conscious|as\s+cheap\s+as\s+possible|cheapest\s+possible)\b *)
budget_patterns ==
  <<{<<"\\bon", "a", "budget\\b">>, <<"\\btight", "budget\\b">>,
     <<"\\bbudget-?friendly\\b">>, <<"\\bbudget", OneBlank, "friendly\\b">>,
     <<"\\bbudget-?conscious\\b">>, <<"\\bbudget", OneBlank, "conscious\\b">>,
     <<"\\bas", "cheap", "as", "possible\\b">>, <<"\\bcheapest", "possible\\b">>}>>

red_eye_patterns ==
  <<{<<"red-?eye">>, <<"red", "-?eye">>},
    {<<"redeye">>},
    Expand(<<AvoidHead, {<<AnyText>>}, {<<"red-?eye">>, <<"red", "-?eye">>}>>)>>

cabin_patterns ==
  <<{<<"premium", "economy">>},
    {<<"\\bbusiness\\b">>},
    {<<"\\bfirst\\b">>},
    {<<"\\beconomy\\b">>}>>

(* main.py, chat: the stability markers of a budget preference. *)
stable_budget_pattern ==
  {<<"\\bon", "a", "budget\\b">>, <<"\\btight", "budget\\b">>,
   <<"\\bbudget-?friendly\\b">>, <<"\\bbudget", OneBlank, "friendly\\b">>,
   <<"\\bbudget-?conscious\\b">>, <<"\\bbudget", OneBlank, "conscious\\b">>,
   <<"\\bas", "cheap", "as", "possible\\b">>, <<"\\bcheapest", "possible\\b">>}

(* \b(find|search|show|book|get|look\s*up|pull\s*up)\b *)
search_verb_pattern ==
  {<<"\\b(?:find|search|show|book|get|lookup|pullup)\\b">>,
   <<"\\blook", "up\\b">>, <<"\\bpull", "up\\b">>}

(* \bfrom\b.+\bto\b *)
route_pattern == {<<"\\bfrom\\b", Apart, "\\bto\\b">>, <<"\\bfrom\\b.+\\bto\\b">>}

(* \b(my|current)\b, \b(preferences|preference)\b, \b(what|show|list|tell)\b *)
query_patterns ==
  <<{<<"\\b(?:my|current)\\b">>}, {<<"\\b(?:preferences|preference)\\b">>},
    {<<"\\b(?:what|show|list|tell)\\b">>}>>

(* \b(forget|delete|remove|clear|wipe|reset)\b *)
delete_verb_pattern == {<<"\\b(?:forget|delete|remove|clear|wipe|reset)\\b">>}

(* from\s+[A-Z]{3}\s+to\s+[A-Z]{3}.*with\s+\w+.*(?:USD|EUR|GBP|\$), IGNORECASE *)
booking_pattern ==
  {<<"from", "[a-z]{3}", "to", "[a-z]{3}", Apart, "with", "\\w+", Apart, "(?:usd|eur|gbp|\\$)">>,
   <<"from", "[a-z]{3}", "to", "[a-z]{3}", Apart, "with", "\\w+.*(?:usd|eur|gbp|\\$)">>,
   <<"from", "[a-z]{3}", "to", "[a-z]{3}.*with", "\\w+", Apart, "(?:usd|eur|gbp|\\$)">>,
   <<"from", "[a-z]{3}", "to", "[a-z]{3}.*with", "\\w+.*(?:usd|eur|gbp|\\$)">>}

(* flight\s+from\s+[A-Z]{3}\s+to\s+[A-Z]{3}, IGNORECASE *)
flight_from_pattern == {<<"flight", "from", "[a-z]{3}", "to", "[a-z]{3}">>}
\* ---- end patterns

(* Each expression with the label it yields. *)
Labelled(patterns, labels) ==
  [i \in DOMAIN patterns |-> [re |-> patterns[i], label |-> labels[i]]]

AvoidMorning == <<"Avoid", "morning", "flights">>
AvoidAfternoon == <<"Avoid", "afternoon", "flights">>
AvoidEvening == <<"Avoid", "evening", "flights">>
MorningFlights == <<"morning", "flights">>
AfternoonFlights == <<"afternoon", "flights">>
EveningFlights == <<"evening", "flights">>
PreferredDeparture == <<"preferred", "departure", "time">>
BudgetConscious == <<"budget", "conscious">>
AvoidRedEye == <<"Avoid", "red-eye", "flights">>

(* all_patterns, in the order the extractor applies them. *)
all_patterns ==
  Labelled(seat_patterns,
           <<<<"window/aisle/exit", "row">>, <<"avoid", "middle", "seats">>,
             <<"window/aisle/exit", "row", "seats">>>>)
  \o Labelled(airline_patterns, <<<<"preferred", "airline">>, <<"avoid", "airline">>>>)
  \o Labelled(time_patterns,
              <<AvoidMorning, AvoidAfternoon, AvoidEvening,
                AvoidMorning, AvoidAfternoon, AvoidEvening,
                MorningFlights, AfternoonFlights, EveningFlights,
                MorningFlights, EveningFlights, AfternoonFlights,
                PreferredDeparture, MorningFlights>>)
  \o Labelled(flight_patterns,
              <<<<"direct", "flights">>, <<"non-stop", "flights">>, <<"avoid", "layovers">>,
                <<"willing", "to", "take", "layovers">>>>)
  \o Labelled(passenger_patterns,
              <<<<"traveling", "alone">>, <<"traveling", "with", "family">>,
                <<"traveling", "with", "partner">>>>)
  \o Labelled(baggage_patterns,
              <<<<"light", "packer">>, <<"extra", "baggage", "needed">>, <<"carry-on", "only">>>>)
  \o Labelled(budget_patterns, <<BudgetConscious>>)
  \o Labelled(red_eye_patterns, <<AvoidRedEye, AvoidRedEye, AvoidRedEye>>)
  \o Labelled(cabin_patterns,
              <<<<"I", "prefer", "Premium", "Economy", "class", "flights">>,
                <<"I", "prefer", "Business", "class", "flights">>,
                <<"I", "prefer", "First", "Class", "flights">>,
                <<"I", "prefer", "Economy", "class", "flights">>>>)

(* The labels of the expressions that match, in order. *)
RECURSIVE MatchedLabels(_, _, _)
MatchedLabels(patterns, k, lower) ==
  IF k > Len(patterns) THEN <<>>
  ELSE (IF Search(patterns[k].re, lower) THEN <<patterns[k].label>> ELSE <<>>)
       \o MatchedLabels(patterns, k + 1, lower)

(* Duplicates removed, the order kept. *)
RECURSIVE Unique(_, _)
Unique(prefs_list, seen) ==
  IF prefs_list = <<>> THEN <<>>
  ELSE IF Head(prefs_list) \in seen THEN Unique(Tail(prefs_list), seen)
  ELSE <<Head(prefs_list)>> \o Unique(Tail(prefs_list), seen \cup {Head(prefs_list)})

Buckets == {"morning", "afternoon", "evening"}

(* The buckets of the labels that begin with "avoid ". *)
AvoidBuckets(unique_prefs) ==
  {b \in Buckets :
     \E i \in DOMAIN unique_prefs :
       LET pl == Lower(unique_prefs[i])
       IN Len(pl) >= 2 /\ pl[1] = "avoid" /\ In(<<b>>, pl)}

(* A filter that keeps every label. *)
KeepAll(unique_prefs, message_lower) == unique_prefs

(* The positive time labels of an avoided bucket are dropped, and the      *)
(* generic time label when the message names an avoided bucket.            *)
DropContradictions(unique_prefs, message_lower) ==
  LET avoid_buckets == AvoidBuckets(unique_prefs)
      Kept(pref) ==
        LET pl == Lower(pref)
        IN IF pl \in {MorningFlights, AfternoonFlights, EveningFlights}
           THEN \A b \in avoid_buckets : ~In(<<b>>, pl)
           ELSE ~(pl = PreferredDeparture /\ \E b \in avoid_buckets : In(<<b>>, message_lower))
  IN IF avoid_buckets = {} THEN unique_prefs ELSE SelectSeq(unique_prefs, Kept)

extract_preferences_from_message(user_message) ==
  LET message_lower == Lower(user_message)
  IN DropContradictions(Unique(MatchedLabels(all_patterns, 1, message_lower), {}), message_lower)

(* _infer_preference_memory_type *)
_infer_preference_memory_type(preference_text) ==
  LET t == Lower(Strip(preference_text))
  IN IF t = <<>> THEN None
     ELSE IF In(<<"red", "eye">>, t) \/ In(<<"red-eye">>, t) \/ In(<<"redeye">>, t) THEN "red_eye"
     ELSE IF AnyIn({<<"non-stop">>, <<"nonstop">>, <<"direct">>, <<"layover">>, <<"stops">>}, t)
     THEN "flight_type"
     ELSE IF AnyIn({<<"cabin">>, <<"class">>, <<"economy">>, <<"premium">>, <<"business">>,
                    <<"first">>}, t)
     THEN "cabin_class"
     ELSE IF AnyIn({<<"morning">>, <<"afternoon">>, <<"evening">>, <<"departure">>}, t)
     THEN "departure_time"
     ELSE IF AnyIn({<<"window">>, <<"aisle">>, <<"seat">>}, t) THEN "seat"
     ELSE IF AnyIn({<<"baggage">>, <<"luggage">>, <<"carry-on">>, <<"checked">>}, t) THEN "baggage"
     ELSE IF AnyIn({<<"airline">>, <<"carrier">>}, t) THEN "airline"
     ELSE IF AnyIn({<<"traveling", "alone">>, <<"travelling", "alone">>, <<"solo">>,
                    <<"with", "family">>, <<"kids">>, <<"children">>, <<"with", "partner">>,
                    <<"spouse">>}, t)
     THEN "passenger"
     ELSE IF AnyIn({<<"one-way">>, <<"one", "way">>, <<"round", "trip">>, <<"round-trip">>}, t)
     THEN "trip_type"
     ELSE None

(* Every message read as a flight search. *)
AlwaysASearch(text) == TRUE

(* _looks_like_explicit_flight_search *)
_looks_like_explicit_flight_search(text) ==
  LET t == Lower(text)
  IN /\ Strip(t) # <<>>
     /\ Search(search_verb_pattern, t) \/ Search(route_pattern, t)

(***************************************************************************)
(* The structured preference store (database.py).  A row is a record       *)
(* [id, userId, prefType, rawText, canonicalText, createdAt].  A text that *)
(* is None or "" is the empty sequence: the code reads both alike          *)
(* (`x or ""`, `if not x`).                                                *)
(***************************************************************************)

(* _clean_text: the stripped text, None when nothing is left. *)
_clean_text(value) == Strip(value)

(* _clean_text of a preference type; the types of the model hold no blanks. *)
_clean_type(value) == IF value = "" THEN None ELSE value

(* Exclusive types that take in flight_type and the rows without a type. *)
ExclusiveAndMore ==
  {"cabin_class", "departure_time", "trip_type", "passenger", "flight_type", None}

(* The mutually exclusive preference types of add_preference. *)
ExclusiveTypes == {"cabin_class", "departure_time", "trip_type", "passenger"}

(* A delete that removes nothing. *)
SupersededNone(rows, user_id, type_clean) == {}

(* An exclusive-type delete that forgets to filter on the user. *)
SupersededOfAnyUser(rows, user_id, type_clean) ==
  {r \in rows : r.prefType = type_clean}

(* The rows the exclusive-type delete of add_preference removes. *)
SupersededRows(rows, user_id, type_clean) ==
  {r \in rows : r.userId = user_id /\ r.prefType = type_clean}

(* The row add_preference inserts. *)
NewRow(user_id, pref_type, raw_text, canonical_text, now) ==
  [id |-> now, userId |-> user_id, prefType |-> _clean_type(pref_type),
   rawText |-> _clean_text(raw_text), canonicalText |-> _clean_text(canonical_text),
   createdAt |-> now]

(* An add_preference that refuses nothing. *)
AddNeverRejected(raw_text) == FALSE

(* add_preference refuses a text that is empty once stripped. *)
AddRejected(raw_text) == _clean_text(raw_text) = <<>>

(* add_preference: the rows of the table after the call. *)
add_preference(rows, user_id, pref_type, raw_text, canonical_text, now) ==
  IF AddRejected(raw_text) THEN rows
  ELSE LET type_clean == _clean_type(pref_type)
           kept == IF type_clean \in ExclusiveTypes
                   THEN rows \ SupersededRows(rows, user_id, type_clean)
                   ELSE rows
       IN kept \cup {NewRow(user_id, pref_type, raw_text, canonical_text, now)}

(* A delete that forgets to filter on the user. *)
MatchesAnyUser(r, user_id, target) ==
  r.rawText = target \/ r.canonicalText = target

(* The rows delete_preference removes: the user's rows whose raw or        *)
(* canonical text equals the target.                                       *)
Matches(r, user_id, target) ==
  r.userId = user_id /\ (r.rawText = target \/ r.canonicalText = target)

(* delete_preference: the rows of the table after the call. *)
delete_preference(rows, user_id, preference_text) ==
  LET target == _clean_text(preference_text)
  IN IF target = <<>> THEN rows
     ELSE {r \in rows : ~Matches(r, user_id, target)}

(* What add_preference returns: an error, or the row inserted. *)
add_preference_result(user_id, pref_type, raw_text, canonical_text, now) ==
  IF AddRejected(raw_text) THEN [error |-> "Preference text is required"]
  ELSE [row |-> NewRow(user_id, pref_type, raw_text, canonical_text, now)]

(* What delete_preference returns. *)
delete_preference_result(rows, user_id, preference_text) ==
  LET target == _clean_text(preference_text)
      deleted == Cardinality({r \in rows : Matches(r, user_id, target)})
  IN IF target = <<>> THEN [error |-> "Preference text is required"]
     ELSE IF deleted # 0 THEN [success |-> TRUE, deleted |-> deleted]
     ELSE [error |-> "Preference not found"]

(* ORDER BY createdAt DESC *)
RECURSIVE NewestFirst(_)
NewestFirst(rows) ==
  IF rows = {} THEN <<>>
  ELSE LET r == CHOOSE x \in rows : \A y \in rows : y.createdAt <= x.createdAt
       IN <<r>> \o NewestFirst(rows \ {r})

(* list_preferences: the user's rows, newest first. *)
list_preferences(rows, user_id) == NewestFirst({r \in rows : r.userId = user_id})

(* _delete_db_texts: delete_preference for each text that is not blank. *)
RECURSIVE _delete_db_texts(_, _, _)
_delete_db_texts(rows, user_id, texts) ==
  IF texts = <<>> THEN rows
  ELSE _delete_db_texts(delete_preference(rows, user_id, Strip(Head(texts))),
                        user_id, Tail(texts))

(* The canonical text of each listed row only. *)
RECURSIVE CanonicalOnly(_)
CanonicalOnly(db_rows) ==
  IF db_rows = <<>> THEN <<>>
  ELSE <<Head(db_rows).canonicalText>> \o CanonicalOnly(Tail(db_rows))

(* The raw and the canonical text of each listed row, in order. *)
RECURSIVE RawAndCanonical(_)
RawAndCanonical(db_rows) ==
  IF db_rows = <<>> THEN <<>>
  ELSE <<Head(db_rows).rawText, Head(db_rows).canonicalText>> \o RawAndCanonical(Tail(db_rows))

(* The texts of the listed rows that mention "luxury". *)
RECURSIVE LuxuryCandidates(_)
LuxuryCandidates(db_rows) ==
  IF db_rows = <<>> THEN <<>>
  ELSE LET r == Head(db_rows)
       IN (IF In(<<"luxury">>, Lower(r.rawText)) THEN <<r.rawText>> ELSE <<>>)
          \o (IF In(<<"luxury">>, Lower(r.canonicalText)) THEN <<r.canonicalText>> ELSE <<>>)
          \o LuxuryCandidates(Tail(db_rows))

(* Deduplicated on the stripped lower-case text, the order kept. *)
RECURSIVE UniqueByLower(_, _)
UniqueByLower(texts, seen) ==
  IF texts = <<>> THEN <<>>
  ELSE LET tl == Lower(Strip(Head(texts)))
       IN IF tl = <<>> \/ tl \in seen THEN UniqueByLower(Tail(texts), seen)
          ELSE <<Head(texts)>> \o UniqueByLower(Tail(texts), seen \cup {tl})

(* The cleanup of get_user_preferences: the rows left in the table. *)
LuxuryCleanup(rows, user_id) ==
  _delete_db_texts(rows, user_id,
                   UniqueByLower(LuxuryCandidates(list_preferences(rows, user_id)), {}))

(***************************************************************************)
(* Spec: the handlers of main.py that read or write the preferences table, *)
(* called one after another.  The fuzzy memory (mem0) is an external       *)
(* service that these handlers call best-effort; it holds no row of the    *)
(* table and is left out here.                                             *)
(***************************************************************************)

(* The most rows written in one run. *)
MaxWrites == 2

Users == {"u1", "u2"}

(* The types a request names. *)
RequestTypes == {"cabin_class", "passenger", None}

(* The texts a request carries. *)
RequestTexts == {<<"solo">>, <<"luxury", "travel">>, <<" ">>, <<>>}

(* The texts a delete names. *)
DeleteTexts == {<<"solo">>, <<"Travel:", "Solo">>, <<"luxury", "travel">>, <<" ">>}

(* The types a delete-by-type command names. *)
CommandInputs == {"cabin_class", "passenger", "baggage"}

(* The types of type_rules in _handle_preference_management_command. *)
CommandTypes ==
  {"cabin_class", "flight_type", "red_eye", "departure_time", "trip_type",
   "seat", "baggage", "airline", "passenger"}

(* The texts of the preferences saved before a read. *)
SavedTexts ==
  {<<"Cabin", "class:", "Economy">>, <<"direct", "flights">>, <<"with", "partner">>,
   <<"I", "prefer", "First", "Class", "flights">>, <<"light", "packer">>,
   <<"Avoid", "morning", "flights">>, <<"Avoid", "evening", "flights">>,
   <<"afternoon", "flights">>}

(* The canonical text the endpoints compute for the text of a request:    *)
(* _canonicalize_preference_text(_strip_preference_wrappers(text)).        *)
CanonicalOf ==
  [c \in RequestTexts \cup DeleteTexts \cup SavedTexts |->
     _canonicalize_preference_text(_strip_preference_wrappers(c))]

Op(name, user_id, type, rows_before, rows_after) ==
  [name |-> name, userId |-> user_id, type |-> type,
   deleted |-> Cardinality(rows_before \ rows_after)]

(* History: the row written last for the user and the type, and how many   *)
(* rows were written for them.                                             *)
Written(history, user_id, type, id) ==
  LET old == {e \in history : e.userId = user_id /\ e.prefType = type}
      n == IF old = {} THEN 0 ELSE (CHOOSE e \in old : TRUE).writes
  IN (history \ old) \cup {[userId |-> user_id, prefType |-> type, id |-> id, writes |-> n + 1]}

Init ==
  /\ StoreIdle
  /\ ConcIdle /\ CanonIdle /\ ChatIdle /\ ResolveIdle /\ RankIdle /\ FilterIdle /\ ToolIdle

(* POST /api/memory/add-preference *)
AddPreference(user_id, memory_type, content) ==
  /\ clock < MaxWrites
  /\ LET canonical == CanonicalOf[content]
         now == clock + 1
         rows == IF content = <<>> THEN prefs
                 ELSE add_preference(prefs, user_id, memory_type, content, canonical, now)
         stored == content # <<>> /\ ~AddRejected(content)
     IN /\ prefs' = rows
        /\ clock' = IF stored THEN now ELSE clock
        /\ latest' = IF stored THEN Written(latest, user_id, _clean_type(memory_type), now)
                     ELSE latest
        /\ op' = Op(IF stored THEN "add_preference" ELSE "add_rejected",
                    user_id, _clean_type(memory_type), prefs, rows)
  /\ UNCHANGED <<bookings, concVars, canonVars, chatVars, resolveVars, rankVars, filterVars, toolVars>>

(* DELETE /api/memory/preferences/{preference_text} *)
DeletePreference(user_id, preference_text) ==
  /\ LET canonical == CanonicalOf[preference_text]
         first == delete_preference(prefs, user_id, preference_text)
         rows == IF canonical # <<>> /\ canonical # preference_text
                 THEN delete_preference(first, user_id, canonical)
                 ELSE first
     IN /\ prefs' = rows
        /\ op' = Op("delete_preference", user_id, None, prefs, rows)
  /\ UNCHANGED <<bookings, clock, latest, concVars, canonVars, chatVars, resolveVars, rankVars, filterVars, toolVars>>

(* Chat command "clear all preferences", and DELETE /api/conversations     *)
(* with deletePreferences set: every listed row is deleted by its texts.   *)
ClearAll(user_id, name) ==
  /\ LET rows == _delete_db_texts(prefs, user_id, RawAndCanonical(list_preferences(prefs, user_id)))
     IN /\ prefs' = rows
        /\ op' = Op(name, user_id, None, prefs, rows)
  /\ UNCHANGED <<bookings, clock, latest, concVars, canonVars, chatVars, resolveVars, rankVars, filterVars, toolVars>>

(* Chat command: delete a quoted preference text. *)
DeleteQuoted(user_id, quoted) ==
  /\ Strip(quoted) # <<>>
  /\ LET target == Strip(quoted)
         canonical == CanonicalOf[target]
         rows == _delete_db_texts(prefs, user_id, <<target, canonical>>)
     IN /\ prefs' = rows
        /\ op' = Op("delete_one", user_id, None, prefs, rows)
  /\ UNCHANGED <<bookings, clock, latest, concVars, canonVars, chatVars, resolveVars, rankVars, filterVars, toolVars>>

(* Chat command: delete the newest saved preference of a type. *)
DeleteByType(user_id, target_type) ==
  /\ LET db_rows == list_preferences(prefs, user_id)
         found == {i \in DOMAIN db_rows : db_rows[i].prefType = target_type}
         row == db_rows[CHOOSE i \in found : \A j \in found : i <= j]
         rows == IF found = {} THEN prefs
                 ELSE _delete_db_texts(prefs, user_id, <<row.rawText, row.canonicalText>>)
     IN /\ prefs' = rows
        /\ op' = Op("delete_type", user_id, target_type, prefs, rows)
  /\ UNCHANGED <<bookings, clock, latest, concVars, canonVars, chatVars, resolveVars, rankVars, filterVars, toolVars>>

(* GET /api/memory/preferences: the merged preferences are returned and    *)
(* the rows that mention "luxury" are deleted from the table.              *)
GetUserPreferences(user_id) ==
  /\ LET rows == LuxuryCleanup(prefs, user_id)
     IN /\ prefs' = rows
        /\ op' = Op("get_user_preferences", user_id, None, prefs, rows)
  /\ UNCHANGED <<bookings, clock, latest, concVars, canonVars, chatVars, resolveVars, rankVars, filterVars, toolVars>>

(* The handlers that only read the table: the chat query "what are my      *)
(* preferences" (snapshot), the merged preferences and a flight search     *)
(* (get_preference_overrides), all through list_preferences.               *)
ReadPreferences(user_id, name) ==
  /\ op' = Op(name, user_id, None, prefs, prefs)
  /\ UNCHANGED <<bookings, prefs, clock, latest, concVars, canonVars, chatVars, resolveVars, rankVars, filterVars, toolVars>>

Next ==
  \/ \E u \in Users, t \in RequestTypes, c \in RequestTexts : AddPreference(u, t, c)
  \/ \E u \in Users, c \in DeleteTexts : DeletePreference(u, c)
  \/ \E u \in Users, n \in {"clear_all", "delete_all_conversations"} : ClearAll(u, n)
  \/ \E u \in Users, c \in DeleteTexts : DeleteQuoted(u, c)
  \/ \E u \in Users, t \in CommandTypes \cap CommandInputs : DeleteByType(u, t)
  \/ \E u \in Users : GetUserPreferences(u)
  \/ \E u \in Users, n \in {"query_preferences", "merged_preferences", "search_flights"} :
       ReadPreferences(u, n)

Spec == Init /\ [][Next]_vars

C1_Categories == {"cabin_class", "departure_time", "trip_type", "passenger"}

Live(user_id, type) == {r \in prefs : r.userId = user_id /\ r.prefType = type}

(* C1: after any sequence of sequential writes and deletes, the table      *)
(* holds at most one row per user and exclusive category, and that row is  *)
(* the one written last for them.                                          *)
C1_Exclusive ==
  \A u \in Users, t \in C1_Categories :
    /\ Cardinality(Live(u, t)) <= 1
    /\ \A r \in Live(u, t) : \E e \in latest : e.userId = u /\ e.prefType = t /\ e.id = r.id

(* Two rows were written for a user and an exclusive category, and the     *)
(* second is the one in the table.                                         *)
C1_Witness ==
  \E e \in latest :
    /\ e.prefType \in C1_Categories /\ e.writes >= 2
    /\ {r.id : r \in Live(e.userId, e.prefType)} = {e.id}

DeleteCommands ==
  {"delete_preference", "clear_all", "delete_all_conversations", "delete_one", "delete_type"}

(* C9, as amended: a row leaves the table only when a write of the same    *)
(* user and exclusive category supersedes it, when a delete command of its *)
(* user removes it, or when the GET preferences endpoint of its user       *)
(* cleans it up because its text mentions "luxury".                        *)
C9_RemovedOnlyBy ==
  [][\A r \in prefs \ prefs' :
       \/ /\ op'.name = "add_preference" /\ op'.userId = r.userId
          /\ op'.type = r.prefType /\ r.prefType \in C1_Categories
       \/ op'.name \in DeleteCommands /\ op'.userId = r.userId
       \/ /\ op'.name = "get_user_preferences" /\ op'.userId = r.userId
          /\ (In(<<"luxury">>, Lower(r.rawText)) \/ In(<<"luxury">>, Lower(r.canonicalText)))]_vars

(* The GET preferences endpoint has removed a row. *)
C9_Witness == op.name = "get_user_preferences" /\ op.deleted > 0

(* C9, as stated: rows leave the table only by exclusive replacement or by *)
(* a delete command; no read removes a row.                                *)
C9_NoReadDeletes ==
  [][prefs \ prefs' # {} => op'.name \in DeleteCommands \cup {"add_preference"}]_vars

(***************************************************************************)
(* SpecConc: two calls of add_preference that run at the same time, each   *)
(* in a session of its own.  A call goes through the statements of the     *)
(* method one by one: the exclusive-type delete, db.commit(), db.add(),    *)
(* db.commit().  prefs is the committed table.                             *)
(***************************************************************************)

Callers == {"a", "b"}

(* The arguments of a concurrent call. *)
ConcTypes == {"cabin_class", None}
ConcTexts == {<<"Cabin", "class:", "Business">>, <<"Cabin", "class:", "Economy">>, <<" ">>}

(* A row written before the two calls begin. *)
EarlierRow == NewRow("u1", "cabin_class", <<"Cabin", "class:", "First">>, <<>>, 0)

InitConc ==
  /\ prefs \in {{}, {EarlierRow}}
  /\ clock = 0 /\ op = NoOp /\ latest = {} /\ bookings = {}
  /\ pc = [c \in Callers |-> "begin"]
  /\ job \in [Callers -> [userId : Users, prefType : ConcTypes, rawText : ConcTexts,
                          now : {0}, pending : {{}}]]
  /\ CanonIdle /\ ChatIdle /\ ResolveIdle /\ RankIdle /\ FilterIdle /\ ToolIdle

(* pref_id, now and the cleaned arguments; an empty text is refused. *)
Begin(c) ==
  /\ pc[c] = "begin"
  /\ clock' = clock + 1
  /\ job' = [job EXCEPT ![c].now = clock + 1]
  /\ pc' = [pc EXCEPT ![c] =
              IF AddRejected(job[c].rawText) THEN "rejected"
              ELSE IF _clean_type(job[c].prefType) \in ExclusiveTypes THEN "delete"
              ELSE "add"]
  /\ UNCHANGED <<bookings, prefs, op, latest, canonVars, chatVars, resolveVars, rankVars, filterVars, toolVars>>

(* db.query(...).delete(): the rows of the user and the type, as the       *)
(* statement finds them, leave the table with the commit that follows.     *)
DeleteStep(c) ==
  /\ pc[c] = "delete"
  /\ job' = [job EXCEPT ![c].pending =
               SupersededRows(prefs, job[c].userId, _clean_type(job[c].prefType))]
  /\ pc' = [pc EXCEPT ![c] = "commit_delete"]
  /\ UNCHANGED <<bookings, prefs, clock, op, latest, canonVars, chatVars, resolveVars, rankVars, filterVars, toolVars>>

(* db.commit() after the delete *)
CommitDelete(c) ==
  /\ pc[c] = "commit_delete"
  /\ prefs' = prefs \ job[c].pending
  /\ job' = [job EXCEPT ![c].pending = {}]
  /\ pc' = [pc EXCEPT ![c] = "add"]
  /\ UNCHANGED <<bookings, clock, op, latest, canonVars, chatVars, resolveVars, rankVars, filterVars, toolVars>>

(* db.add(db_pref) *)
AddStep(c) ==
  /\ pc[c] = "add"
  /\ pc' = [pc EXCEPT ![c] = "commit_add"]
  /\ UNCHANGED <<bookings, prefs, clock, op, latest, job, canonVars, chatVars, resolveVars, rankVars, filterVars, toolVars>>

(* db.commit() after the insert *)
CommitAdd(c) ==
  /\ pc[c] = "commit_add"
  /\ prefs' = prefs \cup {NewRow(job[c].userId, job[c].prefType, job[c].rawText, <<>>, job[c].now)}
  /\ pc' = [pc EXCEPT ![c] = "done"]
  /\ UNCHANGED <<bookings, clock, op, latest, job, canonVars, chatVars, resolveVars, rankVars, filterVars, toolVars>>

NextConc ==
  \E c \in Callers :
    Begin(c) \/ DeleteStep(c) \/ CommitDelete(c) \/ AddStep(c) \/ CommitAdd(c)

SpecConc == InitConc /\ [][NextConc]_vars

(* C2: when two concurrent add_preference calls of one user for one        *)
(* exclusive category have both completed, exactly one row of that         *)
(* category remains for that user.                                         *)
C2_OneRowRemains ==
  ( /\ \A c \in Callers : pc[c] = "done"
    /\ job["a"].userId = job["b"].userId
    /\ job["a"].prefType = job["b"].prefType
    /\ job["a"].prefType \in C1_Categories )
  => Cardinality(Live(job["a"].userId, job["a"].prefType)) = 1

(***************************************************************************)
(* The flight tagger (amadeus_client.py).  An offer is a record            *)
(* [price, itineraries, tags]: price is float(offer["price"]["total"]), a  *)
(* whole number here; an itinerary is its ISO-8601 duration, split into    *)
(* the designator and the number-unit groups that follow it                *)
(* ("PT2H30M" is <<"PT", [n |-> 2, unit |-> "H"], [n |-> 30, unit |-> "M"]>>). *)
(***************************************************************************)

(* re.match(r'PT(\d+H)?(\d+M)?', duration): hours * 60 + mins, 0 when the  *)
(* text does not begin with PT.                                            *)
DurationMinutes(duration) ==
  IF duration = <<>> \/ duration[1] # "PT" THEN 0
  ELSE LET hasH == Len(duration) >= 2 /\ duration[2].unit = "H"
           k == IF hasH THEN 3 ELSE 2
           hours == IF hasH THEN duration[2].n ELSE 0
           mins == IF Len(duration) >= k /\ duration[k].unit = "M" THEN duration[k].n ELSE 0
       IN hours * 60 + mins

(* total_mins: the sum over the offer's itineraries. *)
RECURSIVE TotalMinutes(_)
TotalMinutes(itineraries) ==
  IF itineraries = <<>> THEN 0
  ELSE DurationMinutes(Head(itineraries)) + TotalMinutes(Tail(itineraries))

(* A min that returns the last index with the least value. *)
LastMin(value, n) ==
  CHOOSE i \in 1..n :
    /\ \A j \in 1..n : value[i] <= value[j]
    /\ \A j \in (i + 1)..n : value[j] > value[i]

(* min(pairs, key=...)[0]: the first index with the least value. *)
FirstMin(value, n) ==
  CHOOSE i \in 1..n :
    /\ \A j \in 1..n : value[i] <= value[j]
    /\ \A j \in 1..(i - 1) : value[j] > value[i]

MaxOf(value, n) == CHOOSE x \in {value[i] : i \in 1..n} : \A j \in 1..n : value[j] <= x
MinOf(value, n) == value[FirstMin(value, n)]

(* A 'best' that is given whatever tags the offer carries. *)
BestAlways(tags) == TRUE

(* 'best' is appended only to an offer without 'cheapest' and 'fastest'. *)
BestAllowed(tags) ==
  /\ \A i \in DOMAIN tags : tags[i] # "cheapest"
  /\ \A i \in DOMAIN tags : tags[i] # "fastest"

(* A pass that leaves the tags of an earlier pass on the offer. *)
KeepTags(tags) == tags

(* offer["tags"] = [] *)
ResetTags(tags) == <<>>

(* tag_flight_offers.  The quotients and the scores are floats: Norm and   *)
(* FloatScore number them in the order Python compares them.               *)
tag_flight_offers(list) ==
  IF list = <<>> THEN list
  ELSE
  LET n == Len(list)
      prices == [i \in 1..n |-> list[i].price]
      durations == [i \in 1..n |-> TotalMinutes(list[i].itineraries)]
      cheapest_idx == FirstMin(prices, n)
      fastest_idx == FirstMin(durations, n)
      price_min == MinOf(prices, n)
      price_max == IF MaxOf(prices, n) = 0 THEN price_min + 1 ELSE MaxOf(prices, n)
      dur_min == MinOf(durations, n)
      dur_max == IF MaxOf(durations, n) = 0 THEN dur_min + 1 ELSE MaxOf(durations, n)
      price_norm == [i \in 1..n |->
                       IF price_max # price_min
                       THEN Norm(prices[i] - price_min, price_max - price_min)
                       ELSE Norm(0, 1)]
      dur_norm == [i \in 1..n |->
                     IF dur_max # dur_min
                     THEN Norm(durations[i] - dur_min, dur_max - dur_min)
                     ELSE Norm(0, 1)]
      score == [i \in 1..n |-> FloatScore(price_norm[i], dur_norm[i])]
      best_idx == FirstMin(score, n)
      first == [i \in 1..n |->
                  ResetTags(list[i].tags)
                  \o (IF i = cheapest_idx THEN <<"cheapest">> ELSE <<>>)
                  \o (IF i = fastest_idx THEN <<"fastest">> ELSE <<>>)]
      tags == [i \in 1..n |->
                 IF i = best_idx /\ BestAllowed(first[i]) THEN Append(first[i], "best")
                 ELSE first[i]]
  IN [i \in 1..n |-> [list[i] EXCEPT !.tags = tags[i]]]

(***************************************************************************)
(* SpecRank: the tagger applied to an offer list, and to its own result.   *)
(***************************************************************************)

(* The longest offer list. *)
MaxOffers == 3

(* Durations of the PT#H#M form, and one that counts a day. *)
FiveHours == <<"PT", [n |-> 5, unit |-> "H"]>>
SevenAndAHalfHours == <<"PT", [n |-> 7, unit |-> "H"], [n |-> 30, unit |-> "M"]>>
TenHours == <<"PT", [n |-> 10, unit |-> "H"]>>
ThreeQuarters == <<"PT", [n |-> 45, unit |-> "M"]>>
ADayAndTwoHours == <<"P1DT", [n |-> 2, unit |-> "H"]>>

(* The offers of a search: one-way offers, round trips, and offers that    *)
(* cost nothing.                                                           *)
Offers ==
  [price : {300, 400, 500},
   itineraries : {<<FiveHours>>, <<SevenAndAHalfHours>>, <<TenHours>>},
   tags : {<<>>}]
  \cup [price : {0, 200},
        itineraries : {<<TenHours>>, <<ADayAndTwoHours>>, <<FiveHours, ThreeQuarters>>},
        tags : {<<>>}]

InitRank ==
  /\ offers \in UNION {[1..n -> Offers] : n \in 1..MaxOffers}
  /\ tagged = <<>>
  /\ StoreIdle /\ ConcIdle /\ CanonIdle /\ ChatIdle /\ ResolveIdle /\ FilterIdle /\ ToolIdle

(* tagged = tag_flight_offers(offers) *)
Tag ==
  /\ tagged = <<>>
  /\ tagged' = tag_flight_offers(offers)
  /\ UNCHANGED <<offers, storeVars, concVars, canonVars, chatVars, resolveVars, filterVars, toolVars>>

(* A second pass over the offers the first pass tagged. *)
TagAgain ==
  /\ tagged # <<>>
  /\ offers # tagged
  /\ offers' = tagged
  /\ tagged' = tag_flight_offers(tagged)
  /\ UNCHANGED <<storeVars, concVars, canonVars, chatVars, resolveVars, filterVars, toolVars>>

NextRank == Tag \/ TagAgain

SpecRank == InitRank /\ [][NextRank]_vars

Count(tags, tag) == Cardinality({i \in DOMAIN tags : tags[i] = tag})

Tagged(list, tag) == {i \in DOMAIN list : Count(list[i].tags, tag) > 0}

(* The offer i has the least value of the list, and no offer before it has. *)
FirstLeast(value, i) ==
  /\ \A j \in DOMAIN value : value[i] <= value[j]
  /\ \A j \in DOMAIN value : j < i => value[j] # value[i]

PricesOf(list) == [i \in DOMAIN list |-> list[i].price]

MinutesOf(list) == [i \in DOMAIN list |-> TotalMinutes(list[i].itineraries)]

(* C11: after a pass over a non-empty list exactly one offer carries       *)
(* 'cheapest', the first of the offers with the least price, and exactly   *)
(* one carries 'fastest', the first of the offers with the least total of  *)
(* the parsed durations of its itineraries.                                *)
C11_CheapestAndFastest ==
  tagged # <<>> =>
    /\ \E i \in DOMAIN tagged :
         Tagged(tagged, "cheapest") = {i} /\ FirstLeast(PricesOf(tagged), i)
    /\ \E i \in DOMAIN tagged :
         Tagged(tagged, "fastest") = {i} /\ FirstLeast(MinutesOf(tagged), i)

(* A pass over three offers of one price and one duration, the second pass *)
(* included: the first offer carries both tags.                            *)
C11_Witness ==
  /\ Len(tagged) = 3
  /\ \A i \in DOMAIN tagged :
       /\ tagged[i].price = tagged[1].price
       /\ TotalMinutes(tagged[i].itineraries) = TotalMinutes(tagged[1].itineraries)
  /\ TotalMinutes(tagged[1].itineraries) > 0
  /\ Tagged(tagged, "cheapest") = {1}
  /\ Tagged(tagged, "fastest") = {1}

Least(value) == CHOOSE x \in {value[i] : i \in DOMAIN value} : \A j \in DOMAIN value : x <= value[j]

Greatest(value) == CHOOSE x \in {value[i] : i \in DOMAIN value} : \A j \in DOMAIN value : value[j] <= x

(* (value - min) / (max - min), 0 when max = min, as the pair of its       *)
(* numerator and its denominator.                                          *)
Normalized(value, i) ==
  IF Greatest(value) = Least(value) THEN <<0, 1>>
  ELSE <<value[i] - Least(value), Greatest(value) - Least(value)>>

(* 0.6 * normPrice + 0.4 * normDuration of every offer, in exact           *)
(* arithmetic: each score multiplied by 10 and by both denominators.       *)
ExactScores(list) ==
  [i \in DOMAIN list |->
     6 * Normalized(PricesOf(list), i)[1] * Normalized(MinutesOf(list), i)[2]
     + 4 * Normalized(MinutesOf(list), i)[1] * Normalized(PricesOf(list), i)[2]]

(* C12: after a pass at most one offer carries 'best'; it is the first of  *)
(* the offers with the least score 0.6 * normPrice + 0.4 * normDuration,   *)
(* and it carries 'best' only when it carries neither 'cheapest' nor       *)
(* 'fastest': otherwise no offer carries 'best'.  For the prices 500, 300, *)
(* 400 and the durations 300, 600, 450 the second offer is the cheapest,   *)
(* the first the fastest, and only the third may carry 'best'.             *)
C12_BestIsFirstLeastScore ==
  tagged # <<>> =>
    /\ \A i \in DOMAIN tagged :
         FirstLeast(ExactScores(tagged), i) =>
           Tagged(tagged, "best") =
             IF i \in Tagged(tagged, "cheapest") \cup Tagged(tagged, "fastest") THEN {} ELSE {i}
    /\ (PricesOf(tagged) = <<500, 300, 400>> /\ MinutesOf(tagged) = <<300, 600, 450>>) =>
         /\ Tagged(tagged, "cheapest") = {2}
         /\ Tagged(tagged, "fastest") = {1}
         /\ Tagged(tagged, "best") \subseteq {3}

(* The offers were tagged by an earlier pass. *)
CarryTags(list) == \E i \in DOMAIN list : list[i].tags # <<>>

(* C13: a pass over the offers an earlier pass tagged, a list of the same  *)
(* prices and durations in the same order, gives every offer the tags the  *)
(* earlier pass gave it: the tags do not accumulate.                       *)
C13_SecondPassSame ==
  CarryTags(offers) =>
    /\ Len(tagged) = Len(offers)
    /\ \A i \in DOMAIN offers : tagged[i].tags = offers[i].tags

(* A second pass over three offers that carried all three tags. *)
C13_Witness ==
  /\ Len(offers) = 3
  /\ \A t \in {"cheapest", "fastest", "best"} : Tagged(offers, t) # {}
  /\ tagged # <<>>

(***************************************************************************)
(* SpecChat: POST /api/chat for one message (main.py, chat), up to the     *)
(* rows it writes to the preferences table.                                *)
(***************************************************************************)

(* The most clauses in a message. *)
MaxClauses == 2

Clauses ==
  {<<"i", "hate", "morning", "flights">>,
   <<"but", "i", "love", "morning", "flights">>,
   <<"i", "like", "to", "fly", "in", "the", "evenings">>,
   <<"avoid", "evening", "flights">>,
   <<"looking", "for", "cheap", "flights">>,
   <<"i'm", "on", "a", "tight", "budget">>,
   <<"find", "flights", "from", "JFK", "to", "LAX">>,
   <<"what", "are", "my", "preferences">>,
   <<"light", "packer">>,
   <<"i", "prefer", "premium", "economy">>}

RECURSIVE Concat(_)
Concat(clauses) == IF clauses = <<>> THEN <<>> ELSE Head(clauses) \o Concat(Tail(clauses))

Messages == {Concat(cs) : cs \in UNION {[1..n -> Clauses] : n \in 0..MaxClauses}}

ChatUser == "u1"

InitChat ==
  /\ message \in Messages
  /\ extracted = NoChat
  /\ StoreIdle /\ ConcIdle /\ CanonIdle /\ ResolveIdle /\ RankIdle /\ FilterIdle /\ ToolIdle

(* _handle_preference_query_command answers the message. *)
IsPreferenceQuery(text) ==
  LET lower == Lower(Strip(text))
  IN \A i \in DOMAIN query_patterns : Search(query_patterns[i], lower)

(* The gate of _handle_preference_management_command. *)
HasDeleteVerb(text) == Search(delete_verb_pattern, Lower(Strip(text)))

(* A budget label that is never taken to be stable. *)
NeverStable(msg_lower) == FALSE

(* stable_budget: the message holds a stability marker. *)
StableBudget(msg_lower) == Search(stable_budget_pattern, msg_lower)

(* filtered_extracted: blank labels are dropped, and "budget conscious"    *)
(* unless the message holds a stability marker.                            *)
FilterExtracted(extracted_preferences, msg_lower) ==
  LET Kept(pref) ==
        /\ Strip(pref) # <<>>
        /\ Lower(Strip(pref)) = BudgetConscious => StableBudget(msg_lower)
  IN SelectSeq(extracted_preferences, Kept)

(* The loop that persists the extracted labels, one row each. *)
RECURSIVE Persist(_, _, _, _)
Persist(rows, user_id, labels, now) ==
  IF labels = <<>> THEN rows
  ELSE LET pref == Head(labels)
           pref_type == _infer_preference_memory_type(pref)
           canonical == _canonicalize_preference_text(_strip_preference_wrappers(pref))
       IN Persist(add_preference(rows, user_id, pref_type, pref, canonical, now + 1),
                  user_id, Tail(labels), now + 1)

(* The message is blank: 400. *)
ChatRejected ==
  /\ extracted.path = "none"
  /\ Strip(message) = <<>>
  /\ extracted' = [NoChat EXCEPT !.path = "rejected"]
  /\ UNCHANGED <<message, storeVars, concVars, canonVars, resolveVars, rankVars, filterVars, toolVars>>

(* The message asks for the saved preferences: they are read and listed. *)
ChatQuery ==
  /\ extracted.path = "none"
  /\ Strip(message) # <<>>
  /\ IsPreferenceQuery(message)
  /\ extracted' = [NoChat EXCEPT !.path = "query"]
  /\ UNCHANGED <<message, storeVars, concVars, canonVars, resolveVars, rankVars, filterVars, toolVars>>

(* process_message and the write path: the labels process_message returns  *)
(* are filtered and persisted.  A message that yields labels and does not  *)
(* look like a flight search is answered at once with its labels; any      *)
(* other goes on to the assistant, which returns the labels of the message *)
(* or, from a branch that answers by itself or fails, none.                *)
ChatProcess(fromAssistant) ==
  /\ extracted.path = "none"
  /\ Strip(message) # <<>>
  /\ ~IsPreferenceQuery(message)
  /\ ~HasDeleteVerb(message)
  /\ LET extracted_prefs_only == extract_preferences_from_message(message)
         only == extracted_prefs_only # <<>> /\ ~_looks_like_explicit_flight_search(message)
         returned == IF only \/ fromAssistant THEN extracted_prefs_only ELSE <<>>
         filtered == FilterExtracted(returned, Lower(message))
     IN /\ extracted' = [path |-> IF only THEN "preference_only" ELSE "assistant",
                         returned |-> returned, persisted |-> filtered]
        /\ prefs' = Persist(prefs, ChatUser, filtered, clock)
        /\ clock' = clock + Len(filtered)
  /\ UNCHANGED <<bookings, message, op, latest, concVars, canonVars, resolveVars, rankVars, filterVars, toolVars>>

NextChat == ChatRejected \/ ChatQuery \/ \E a \in BOOLEAN : ChatProcess(a)

SpecChat == InitChat /\ [][NextChat]_vars

Labels(list) == {list[i] : i \in DOMAIN list}

HateAndLoveMornings ==
  <<"i", "hate", "morning", "flights", "but", "i", "love", "morning", "flights">>

(* C7: when the extractor's labels hold "Avoid <bucket> flights" they do   *)
(* not hold "<bucket> flights" for the same bucket; "I hate morning        *)
(* flights but I love morning flights" yields "Avoid morning flights" only. *)
C7_AvoidanceWins ==
  /\ \A pair \in {<<AvoidMorning, MorningFlights>>, <<AvoidAfternoon, AfternoonFlights>>,
                  <<AvoidEvening, EveningFlights>>} :
       pair[1] \in Labels(extracted.returned) => pair[2] \notin Labels(extracted.returned)
  /\ (message = HateAndLoveMornings /\ extracted.path # "none")
       => extracted.returned = <<AvoidMorning>>

(* The message that hates and loves mornings has been processed. *)
C7_Witness ==
  /\ message = HateAndLoveMornings
  /\ extracted.path = "preference_only"
  /\ AvoidMorning \in Labels(extracted.returned)

C8_Markers ==
  {<<"on", "a", "budget">>, <<"tight", "budget">>, <<"budget-friendly">>,
   <<"budget", "friendly">>, <<"budget-conscious">>, <<"budget", "conscious">>,
   <<"as", "cheap", "as", "possible">>, <<"cheapest", "possible">>}

C8_HasMarker ==
  \E m \in C8_Markers : \E i \in 1..(Len(message) - Len(m) + 1) :
    SubSeq(message, i, i + Len(m) - 1) = m

C8_BudgetRows == {r \in prefs : r.userId = ChatUser /\ r.rawText = BudgetConscious}

(* C8: the chat write path persists a "budget conscious" row only for a    *)
(* message that holds a stability marker, and it does persist one for a    *)
(* message with a marker whose labels were returned.                       *)
C8_BudgetOnlyWhenStable ==
  /\ C8_BudgetRows # {} => C8_HasMarker
  /\ ( /\ C8_HasMarker
       /\ \/ extracted.path = "preference_only"
          \/ extracted.path = "assistant" /\ extracted.returned # <<>> )
       => /\ Cardinality(C8_BudgetRows) = 1
          /\ \A r \in C8_BudgetRows : r.prefType = None /\ r.canonicalText = BudgetConscious

(* "i'm on a tight budget" has been persisted. *)
C8_Witness ==
  /\ message = <<"i'm", "on", "a", "tight", "budget">>
  /\ C8_BudgetRows # {}

(***************************************************************************)
(* The merged preferences: get_user_memories and summarize_preferences     *)
(* (memory_manager.py) and _build_preferences_snapshot (main.py).  A fuzzy *)
(* memory is a record [id, memory]; the memory service is an external      *)
(* collaborator and `fuzzy` is what its search returns for the user.       *)
(***************************************************************************)

(* `kw in text` for a text that keeps its case. *)
InCased(kw, text) ==
  IF Len(kw) = 1
  THEN \E i \in DOMAIN text : kw[1] \in CasedSubWords(text[i])
  ELSE \E i \in 1..(Len(text) - Len(kw) + 1) :
         /\ kw[1] \in CasedSufWords(text[i])
         /\ \A j \in 2..(Len(kw) - 1) : text[i + j - 1] = kw[j]
         /\ kw[Len(kw)] \in CasedPreWords(text[i + Len(kw) - 1])

(* memory_text.startswith("Travel Preference Type:") *)
StartsWithTypeHeader(text) ==
  /\ Len(text) >= 3
  /\ text[1] = "Travel"
  /\ text[2] = "Preference"
  /\ "Type:" \in CasedPreWords(text[3])

(* text.replace(" for general", ""): the words "for general" after a      *)
(* blank are cut out; no word of the vocabulary goes on after "general".   *)
RECURSIVE RemoveForGeneral(_, _)
RemoveForGeneral(t, i) ==
  IF i >= Len(t) THEN t
  ELSE IF i > 1 /\ t[i] = "for" /\ t[i + 1] = "general"
  THEN RemoveForGeneral(SubSeq(t, 1, i - 1) \o SubSeq(t, i + 2, Len(t)), i)
  ELSE RemoveForGeneral(t, i + 1)

(* text.replace(" for general", "").strip() *)
ForGeneralRemoved(t) == Strip(RemoveForGeneral(t, 1))

(* get_user_memories: the search results without the "Type: General"      *)
(* wrappers, each text cleaned of " for general".                          *)
RECURSIVE get_user_memories(_)
get_user_memories(results) ==
  IF results = <<>> THEN <<>>
  ELSE LET m == Head(results)
       IN (IF InCased(<<"Type:", "General">>, m.memory) THEN <<>>
           ELSE <<[m EXCEPT !.memory = ForGeneralRemoved(m.memory)]>>)
          \o get_user_memories(Tail(results))

(* A skip that knows the words of travel history and not the route arrow. *)
HistoryWordsOnly(memory_text) ==
  LET memory_lower == Lower(memory_text)
  IN \/ InCased(<<"Type:", "General">>, memory_text)
     \/ StartsWithTypeHeader(memory_text)
     \/ AnyIn({<<"booked">>, <<"searched">>, <<"traveled">>}, memory_lower)
     \/ In(<<"travel", "history", "entry">>, memory_lower)
     \/ Search(booking_pattern, memory_lower)
     \/ Search(flight_from_pattern, memory_lower)

(* The memories summarize_preferences skips: general wrappers, bookings,   *)
(* searches and travel history.                                            *)
NotAPreference(memory_text) ==
  LET memory_lower == Lower(memory_text)
      arrow == In(<<"→">>, memory_lower)
  IN \/ InCased(<<"Type:", "General">>, memory_text)
     \/ StartsWithTypeHeader(memory_text)
     \/ AnyIn({<<"booked">>, <<"user", "booked">>}, memory_lower)
     \/ AnyIn({<<"searched">>, <<"user", "searched">>}, memory_lower)
     \/ AnyIn({<<"traveled">>, <<"user", "traveled">>}, memory_lower)
     \/ In(<<"travel", "history", "entry">>, memory_lower)
     \/ Search(booking_pattern, memory_lower)
     \/ Search(flight_from_pattern, memory_lower)
     \/ arrow /\ AnyIn({<<"pm">>, <<"am">>}, memory_lower)
     \/ (\E currency \in {"USD", "EUR", "$", "GBP"} : InCased(<<currency>>, memory_text)) /\ arrow

HomeWords == {<<"live">>, <<"based">>, <<"from">>, <<"home">>}

Cities ==
  {<<"houston">>, <<"newyork">>, <<"los", "angeles">>, <<"london">>, <<"paris">>,
   <<"tokyo">>, <<"delhi">>, <<"mumbai">>, <<"kathmandu">>, <<"beijing">>,
   <<"chicago">>, <<"miami">>, <<"seattle">>, <<"boston">>, <<"denver">>,
   <<"dallas">>, <<"austin">>, <<"sanfrancisco">>}

(* The category summarize_preferences files a memory under. *)
Categorize(display_lower, memory_lower) ==
  IF /\ AnyIn({<<"business">>, <<"economy">>, <<"premium">>, <<"first">>}, display_lower)
     /\ AnyIn({<<"class">>, <<"cabin">>}, display_lower)
  THEN "cabin_class"
  ELSE IF AnyIn({<<"red-eye">>, <<"red", "eye">>, <<"red-eye:">>}, display_lower)
  THEN "red_eye"
  ELSE IF AnyIn({<<"round", "trip">>, <<"one-way">>, <<"round-trip">>, <<"one", "way">>,
                 <<"trip", "type:">>}, display_lower)
  THEN "trip_type"
  ELSE IF AnyIn({<<"direct">>, <<"non-stop">>, <<"layover">>, <<"stop">>, <<"stops:">>},
                display_lower)
  THEN "flight_type"
  ELSE IF AnyIn({<<"morning">>, <<"afternoon">>, <<"evening">>, <<"depart">>,
                 <<"departure", "time:">>}, display_lower)
  THEN "departure_time"
  ELSE IF AnyIn({<<"traveling", "alone">>, <<"solo">>, <<"travel", "alone">>,
                 <<"fly", "alone">>, <<"traveling", "with", "family">>,
                 <<"traveling", "with", "kids">>, <<"traveling", "with", "children">>,
                 <<"traveling", "with", "partner">>, <<"traveling", "with", "spouse">>,
                 <<"family", "trip">>, <<"travel:">>}, display_lower)
  THEN "passenger"
  ELSE IF AnyIn({<<"seat">>, <<"window">>, <<"aisle">>, <<"middle">>, <<"exit", "row">>,
                 <<"seat:">>}, display_lower)
  THEN "seat"
  ELSE IF AnyIn({<<"airline">>, <<"carrier">>, <<"united">>, <<"delta">>, <<"american">>,
                 <<"southwest">>, <<"jetblue">>, <<"alaska">>, <<"spirit">>,
                 <<"frontier">>}, display_lower)
  THEN "airline"
  ELSE IF AnyIn({<<"baggage">>, <<"luggage">>, <<"bag">>, <<"carry-on">>, <<"checked">>,
                 <<"baggage:">>}, display_lower)
  THEN "baggage"
  ELSE IF /\ AnyIn({<<"budget">>, <<"price">>, <<"cost">>}, display_lower)
          /\ ~In(<<"general">>, display_lower)
          /\ ~In(<<"budget-conscious">>, display_lower)
  THEN "budget"
  ELSE IF AnyIn(HomeWords, memory_lower) /\ AnyIn(Cities, memory_lower)
  THEN "location"
  ELSE "other"

(* The categories the summary starts with. *)
SummaryKeys ==
  {"seat", "airline", "departure_time", "flight_type", "cabin_class", "red_eye",
   "trip_type", "passenger", "baggage", "routes", "budget", "location", "other"}

(* An entry of the summary: the display text, with include_ids also the id *)
(* and the text kept for deletion.                                         *)
Entry(include_ids, id, text, memory) ==
  IF include_ids THEN [id |-> id, text |-> text, memory |-> memory] ELSE [text |-> text]

(* dict.get(key) or [] *)
Get(dict, key) == IF key \in DOMAIN dict THEN dict[key] ELSE <<>>

(* A memory is filed under its category unless its display text is there  *)
(* already.                                                                *)
FileUnder(key, display_lower, entry, acc) ==
  IF display_lower \in acc.seen[key] THEN acc
  ELSE [summary |-> [acc.summary EXCEPT ![key] = Append(@, entry)],
        seen |-> [acc.seen EXCEPT ![key] = @ \cup {display_lower}]]

(* The canonical display string of a memory, filed with the raw memory     *)
(* kept for deletion.                                                      *)
FileMemory(id, memory_text, display_text, include_ids, acc) ==
  FileUnder(Categorize(Lower(display_text), Lower(memory_text)), Lower(display_text),
            Entry(include_ids, id, display_text, memory_text), acc)

(* The loop of summarize_preferences over the memories: each one that is a *)
(* preference is filed once under its category.                            *)
RECURSIVE FileMemories(_, _, _)
FileMemories(all_memories, include_ids, acc) ==
  IF all_memories = <<>> THEN acc
  ELSE LET mem == Head(all_memories)
           memory_text == ForGeneralRemoved(mem.memory)
       IN FileMemories(Tail(all_memories), include_ids,
            IF mem.memory = <<>> \/ NotAPreference(memory_text) THEN acc
            ELSE FileMemory(mem.id, memory_text,
                            _canonicalize_preference_text(_strip_preference_wrappers(memory_text)),
                            include_ids, acc))

(* A read that takes a row without a type for a passenger row. *)
TypeOrPassenger(type) == IF type = None \/ type = "" THEN "passenger" ELSE type

(* r.get("type") or "other" *)
TypeOrOther(type) == IF type = None \/ type = "" THEN "other" ELSE type

(* latest_db_by_type.get(t): the rows of the type, the newest first. *)
RowsOfType(db_rows, t) ==
  LET OfType(r) == TypeOrOther(r.prefType) = t IN SelectSeq(db_rows, OfType)

PassengerLike ==
  {<<"travel:", "solo">>, <<"traveling", "alone">>, <<"travelling", "alone">>, <<"solo">>,
   <<"with", "family">>, <<"travel:", "with", "family">>, <<"with", "partner">>,
   <<"travel:", "with", "partner">>}

(* The loop of summarize_preferences over the rows of the table: each row  *)
(* is filed under its type unless its text is there already.               *)
RECURSIVE MergeRows(_, _, _)
MergeRows(db_rows, include_ids, acc) ==
  IF db_rows = <<>> THEN acc
  ELSE LET r == Head(db_rows)
           raw == Strip(r.rawText)
           canonical == Strip(r.canonicalText)
           display_text == IF canonical # <<>> THEN canonical ELSE raw
           display_lower == Lower(Strip(display_text))
           t == TypeOrOther(r.prefType)
           pref_type == IF t \in {"other", "general", ""} /\ AnyIn(PassengerLike, display_lower)
                        THEN "passenger" ELSE t
           summary == IF pref_type \in DOMAIN acc.summary THEN acc.summary
                      ELSE acc.summary @@ (pref_type :> <<>>)
           seen == IF pref_type \in DOMAIN acc.seen THEN acc.seen
                   ELSE acc.seen @@ (pref_type :> {})
       IN IF display_lower = <<>> THEN MergeRows(Tail(db_rows), include_ids, acc)
          ELSE IF display_lower \in seen[pref_type]
          THEN MergeRows(Tail(db_rows), include_ids, [summary |-> summary, seen |-> seen])
          ELSE MergeRows(Tail(db_rows), include_ids,
                 [summary |-> [summary EXCEPT
                                 ![pref_type] = Append(@, Entry(include_ids, r.id, display_text,
                                                   IF raw # <<>> THEN raw ELSE display_text))],
                  seen |-> [seen EXCEPT ![pref_type] = @ \cup {display_lower}]])

(* The mutually exclusive types of the summary and of the snapshot. *)
MutuallyExclusive == {"cabin_class", "departure_time", "trip_type", "passenger"}

(* "Mutually exclusive types: overwrite with DB latest only." *)
OverwriteExclusive(summary, db_rows, include_ids) ==
  [k \in DOMAIN summary |->
     LET rows == IF k \in MutuallyExclusive THEN RowsOfType(db_rows, k) ELSE <<>>
         row == Head(rows)
         raw == Strip(row.rawText)
         canonical == Strip(row.canonicalText)
         display_text == IF canonical # <<>> THEN canonical ELSE raw
     IN IF rows = <<>> THEN summary[k]
        ELSE IF display_text = <<>> THEN summary[k]
        ELSE <<Entry(include_ids, row.id, display_text,
                     IF raw # <<>> THEN raw ELSE display_text)>>]

(* _entry_text: the text of an entry. *)
_entry_text(v) ==
  IF v.text # <<>> THEN v.text
  ELSE IF "memory" \in DOMAIN v THEN v.memory
  ELSE <<>>

NotLuxury(item) == ~In(<<"luxury">>, Lower(_entry_text(item)))

(* "Always hide generic luxury preferences" of the keys other and budget. *)
HideLuxury(summary) ==
  [k \in DOMAIN summary |->
     IF k \in {"other", "budget"} THEN SelectSeq(summary[k], NotLuxury) ELSE summary[k]]

(* {k: v for k, v in summary.items() if v} *)
NonEmpty(summary) == [k \in {x \in DOMAIN summary : summary[x] # <<>>} |-> summary[k]]

(* summarize_preferences: the categories of the user's preferences, from   *)
(* the memories `results` of the search and the rows of the table.         *)
summarize_preferences(results, rows, user_id, include_ids) ==
  LET all_memories == get_user_memories(results)
      filed == FileMemories(all_memories, include_ids,
                            [summary |-> [k \in SummaryKeys |-> <<>>],
                             seen |-> [k \in SummaryKeys |-> {}]])
      db_rows == list_preferences(rows, user_id)
      merged == MergeRows(db_rows, include_ids, filed).summary
  IN NonEmpty(HideLuxury(OverwriteExclusive(merged, db_rows, include_ids)))

(* _pref_text: the text of an item of the snapshot. *)
_pref_text(x) ==
  IF x.text # <<>> THEN x.text
  ELSE IF "memory" \in DOMAIN x THEN x.memory
  ELSE <<>>

TextsOf(items) == {Lower(Strip(_pref_text(items[i]))) : i \in DOMAIN items}

(* The loop of the snapshot over the rows of the table. *)
RECURSIVE SnapshotMerge(_, _)
SnapshotMerge(db_rows, preferences) ==
  IF db_rows = <<>> THEN preferences
  ELSE LET r == Head(db_rows)
           raw == r.rawText
           canonical == IF r.canonicalText # <<>> THEN r.canonicalText ELSE raw
           key == TypeOrOther(r.prefType)
           existing == Get(preferences, key)
           candidate_texts == {Lower(Strip(canonical)), Lower(Strip(raw))}
           known == \E t \in candidate_texts : t # <<>> /\ t \in TextsOf(existing)
           added == IF known THEN existing
                    ELSE Append(existing, [id |-> r.id, text |-> canonical, memory |-> raw])
       IN SnapshotMerge(Tail(db_rows),
                        [k \in DOMAIN preferences \cup {key} |->
                           IF k = key THEN added ELSE preferences[k]])

(* "Mutually exclusive preference types: DB latest wins (single item)" *)
SnapshotExclusive(preferences, db_rows) ==
  LET Latest(k) == RowsOfType(db_rows, k)
      Wins(k) == /\ k \in MutuallyExclusive
                 /\ Latest(k) # <<>>
                 /\ (Head(Latest(k)).rawText # <<>> \/ Head(Latest(k)).canonicalText # <<>>)
      Item(row) == [id |-> row.id,
                    text |-> IF row.canonicalText # <<>> THEN row.canonicalText ELSE row.rawText,
                    memory |-> row.rawText]
  IN [k \in DOMAIN preferences \cup {x \in MutuallyExclusive : Wins(x)} |->
        IF Wins(k) THEN <<Item(Head(Latest(k)))>> ELSE preferences[k]]

SnapshotNotLuxury(item) == ~In(<<"luxury">>, Lower(Strip(_pref_text(item))))

(* The luxury items are dropped from every key, and the empty keys with them. *)
SnapshotHideLuxury(preferences) ==
  NonEmpty([k \in DOMAIN preferences |-> SelectSeq(preferences[k], SnapshotNotLuxury)])

passenger_markers ==
  {<<"traveling", "alone">>, <<"travelling", "alone">>, <<"solo">>, <<"with", "family">>,
   <<"kids">>, <<"children">>, <<"with", "partner">>, <<"spouse">>}

(* The passenger-like items of "other", appended to the passenger bucket   *)
(* unless their text is there already.                                     *)
RECURSIVE MovedToPassenger(_, _)
MovedToPassenger(other_items, passenger_bucket) ==
  IF other_items = <<>> THEN passenger_bucket
  ELSE LET item == Head(other_items)
           t == Lower(Strip(_pref_text(item)))
       IN IF AnyIn(passenger_markers, t) /\ t # <<>> /\ t \notin TextsOf(passenger_bucket)
          THEN MovedToPassenger(Tail(other_items), Append(passenger_bucket, item))
          ELSE MovedToPassenger(Tail(other_items), passenger_bucket)

(* "move passenger-like entries out of other" *)
MovePassengers(preferences) ==
  LET other_items == Get(preferences, "other")
      passenger_bucket == MovedToPassenger(other_items, Get(preferences, "passenger"))
      NotPassenger(item) == ~AnyIn(passenger_markers, Lower(Strip(_pref_text(item))))
      kept_other == SelectSeq(other_items, NotPassenger)
      keys == ((DOMAIN preferences \cup (IF passenger_bucket # <<>> THEN {"passenger"} ELSE {}))
               \ (IF kept_other = <<>> THEN {"other"} ELSE {}))
  IN IF other_items = <<>> THEN preferences
     ELSE [k \in keys |->
             IF k = "passenger" THEN passenger_bucket
             ELSE IF k = "other" THEN kept_other
             ELSE preferences[k]]

RECURSIVE SumLen(_, _)
SumLen(preferences, keys) ==
  IF keys = {} THEN 0
  ELSE LET k == CHOOSE x \in keys : TRUE
       IN Len(preferences[k]) + SumLen(preferences, keys \ {k})

(* The payload of the Active Preferences. *)
Snapshot(user_id, preferences) ==
  [userId |-> user_id, preferences |-> preferences,
   count |-> SumLen(preferences, DOMAIN preferences)]

(* _build_preferences_snapshot: the summary with ids, merged with the rows *)
(* of the table.                                                           *)
_build_preferences_snapshot(results, rows, user_id) ==
  LET db_rows == list_preferences(rows, user_id)
  IN Snapshot(user_id,
       MovePassengers(SnapshotHideLuxury(
         SnapshotExclusive(
           SnapshotMerge(db_rows, summarize_preferences(results, rows, user_id, TRUE)),
           db_rows))))

(***************************************************************************)
(* The search parameters: get_preference_overrides and execute_tool        *)
(* (agent.py), search_flights (amadeus_client.py).                         *)
(***************************************************************************)

(* dict[key] = value *)
Put(dict, key, value) ==
  [k \in DOMAIN dict \cup {key} |-> IF k = key THEN value ELSE dict[k]]

(* " ".join([str(item) for item in items]).lower() *)
RECURSIVE JoinLower(_)
JoinLower(items) ==
  IF items = <<>> THEN <<>> ELSE Lower(Head(items).text) \o JoinLower(Tail(items))

(* " & ".join(applied_prefs) if applied_prefs else None *)
RECURSIVE JoinApplied(_)
JoinApplied(applied_prefs) ==
  IF Len(applied_prefs) = 1 THEN Head(applied_prefs)
  ELSE Head(applied_prefs) \o <<"&">> \o JoinApplied(Tail(applied_prefs))

(* The travel class of a cabin named by the current selection. *)
UiTravelClass(cabin) ==
  LET cabin_l == Lower(Strip(cabin))
  IN IF Strip(cabin) = <<>> THEN None
     ELSE IF In(<<"first">>, cabin_l) THEN "FIRST"
     ELSE IF In(<<"business">>, cabin_l) THEN "BUSINESS"
     ELSE IF In(<<"premium">>, cabin_l) THEN "PREMIUM_ECONOMY"
     ELSE IF In(<<"economy">>, cabin_l) THEN "ECONOMY"
     ELSE None

(* The travel class of the stored cabin preferences. *)
StoredTravelClass(cabin_text) ==
  IF In(<<"first">>, cabin_text) /\ In(<<"class">>, cabin_text) THEN "FIRST"
  ELSE IF In(<<"business">>, cabin_text) THEN "BUSINESS"
  ELSE IF In(<<"premium">>, cabin_text) THEN "PREMIUM_ECONOMY"
  ELSE IF In(<<"economy">>, cabin_text) THEN "ECONOMY"
  ELSE None

ClassLabel(travel_class) ==
  CASE travel_class = "FIRST" -> <<"First", "Class">>
    [] travel_class = "BUSINESS" -> <<"Business", "Class">>
    [] travel_class = "PREMIUM_ECONOMY" -> <<"Premium", "Economy">>
    [] travel_class = "ECONOMY" -> <<"Economy">>

(* The stored cabin preferences that apply whatever the selection is. *)
StoredCabinAlways(overrides, cabin_items) == cabin_items # <<>>

(* "Only apply if current UI selection didn't already set it" *)
StoredCabinApplies(overrides, cabin_items) ==
  "travel_class" \notin DOMAIN overrides /\ cabin_items # <<>>

(* The adults of the stored passenger preferences: <<n, label>> or <<>>. *)
StoredAdults(seat_text) ==
  IF In(<<"alone">>, seat_text) \/ In(<<"solo">>, seat_text)
  THEN <<1, <<"traveling", "alone">> >>
  ELSE IF In(<<"2">>, seat_text) \/ In(<<"couple">>, seat_text)
  THEN <<2, <<"2", "passengers">> >>
  ELSE IF In(<<"family">>, seat_text) \/ In(<<"kids">>, seat_text) \/ In(<<"children">>, seat_text)
  THEN <<4, <<"family", "travel">> >>
  ELSE <<>>

(* The label of the stored time preferences. *)
TimeLabel(time_text) ==
  IF AnyIn({<<"avoid">>, <<"hate">>, <<"don't", "like">>, <<"do", "not", "like">>}, time_text)
  THEN IF In(<<"morning">>, time_text) THEN <<"avoid", "morning", "flights">>
       ELSE IF In(<<"afternoon">>, time_text) THEN <<"avoid", "afternoon", "flights">>
       ELSE IF In(<<"evening">>, time_text) THEN <<"avoid", "evening", "flights">>
       ELSE <<"avoid", "time", "preference:">> \o time_text
  ELSE IF In(<<"morning">>, time_text) THEN <<"morning", "flights">>
  ELSE IF In(<<"afternoon">>, time_text) THEN <<"afternoon", "flights">>
  ELSE IF In(<<"evening">>, time_text) THEN <<"evening", "flights">>
  ELSE <<"time", "preference:">> \o time_text

(* The first of the keys that holds items. *)
RECURSIVE FirstOf(_, _)
FirstOf(prefs_summary, keys) ==
  IF keys = <<>> THEN <<>>
  ELSE IF Get(prefs_summary, Head(keys)) # <<>> THEN prefs_summary[Head(keys)]
  ELSE FirstOf(prefs_summary, Tail(keys))

(* The compiler's overrides, user_preferences and applied_prefs before    *)
(* anything is applied.                                                    *)
NoOverrides == [overrides |-> <<>>, user_preferences |-> <<>>, applied_prefs |-> <<>>]

(* overrides[key] = value; applied_prefs.append(label) *)
Applied(acc, key, value, label) ==
  [acc EXCEPT !.overrides = Put(@, key, value), !.applied_prefs = Append(@, label)]

(* user_preferences[key] = value *)
Noted(acc, key, value) == [acc EXCEPT !.user_preferences = Put(@, key, value)]

(* Apply current UI preferences first (highest priority) *)
SelectedCabin(ui_class, acc) ==
  IF ui_class # None
  THEN Applied(acc, "travel_class", ui_class,
               ClassLabel(ui_class) \o <<"(current", "selection)">>)
  ELSE acc

SelectedDirect(current_preferences, acc) ==
  IF current_preferences.directFlightsOnly
  THEN Applied(acc, "non_stop", TRUE, <<"direct/non-stop", "(current", "selection)">>)
  ELSE acc

SelectedRedEye(current_preferences, acc) ==
  IF current_preferences.avoidRedEye
  THEN [Noted(acc, "avoid_red_eye", TRUE) EXCEPT
          !.applied_prefs = Append(@, <<"avoid", "red-eye", "flights", "(current", "selection)">>)]
  ELSE acc

(* Check for passenger preferences *)
StoredPassengers(adults, acc) ==
  IF adults # <<>> THEN Applied(acc, "adults", adults[1], adults[2]) ELSE acc

(* Check for cabin class preferences *)
StoredCabin(cabin_items, acc) ==
  LET stored_class == StoredTravelClass(JoinLower(cabin_items))
  IN IF StoredCabinApplies(acc.overrides, cabin_items) /\ stored_class # None
     THEN Applied(acc, "travel_class", stored_class,
                  ClassLabel(stored_class) \o <<"preference">>)
     ELSE acc

(* Check for direct flight preferences *)
StoredDirect(flight_items, flight_text, acc) ==
  IF /\ "non_stop" \notin DOMAIN acc.overrides
     /\ flight_items # <<>>
     /\ (In(<<"direct">>, flight_text) \/ In(<<"non-stop">>, flight_text))
  THEN Applied(acc, "non_stop", TRUE, <<"direct/non-stop", "preference">>)
  ELSE acc

(* Check for red-eye avoidance *)
StoredRedEye(red_eye_text, acc) ==
  IF /\ "avoid_red_eye" \notin DOMAIN acc.user_preferences
     /\ In(<<"red">>, red_eye_text) /\ In(<<"eye">>, red_eye_text)
  THEN [Noted(acc, "avoid_red_eye", TRUE) EXCEPT
          !.applied_prefs = Append(@, <<"avoid", "red-eye", "flights", "preference">>)]
  ELSE acc

(* Check for time/departure preferences *)
StoredTime(time_text, acc) ==
  IF time_text # <<>>
  THEN Noted(Applied(acc, "time_preference", time_text, TimeLabel(time_text)),
             "departure_time_preferences", <<time_text>>)
  ELSE acc

(* The overrides as they are returned. *)
Compiled(acc) ==
  Put(Put(acc.overrides, "applied_prefs_summary",
          IF acc.applied_prefs # <<>> THEN JoinApplied(acc.applied_prefs) ELSE <<>>),
      "user_preferences", acc.user_preferences)

(* get_preference_overrides: the search parameters compiled from the       *)
(* current selection and the summary of the stored preferences.            *)
get_preference_overrides(prefs_summary, current_preferences) ==
  Compiled(
    StoredTime(
      JoinLower(FirstOf(prefs_summary, <<"time_preferences", "departure_time">>)),
      StoredRedEye(
        JoinLower(FirstOf(prefs_summary, <<"red_eye_preferences", "red_eye">>)),
        StoredDirect(
          FirstOf(prefs_summary, <<"flight_type_preferences", "flight_type">>),
          JoinLower(FirstOf(prefs_summary, <<"flight_type_preferences", "flight_type">>)),
          StoredCabin(
            FirstOf(prefs_summary, <<"cabin_class_preferences", "cabin_class">>),
            StoredPassengers(
              StoredAdults(JoinLower(
                FirstOf(prefs_summary,
                        <<"seat_preferences", "passenger", "passenger_preferences">>))),
              SelectedRedEye(current_preferences,
                SelectedDirect(current_preferences,
                  SelectedCabin(UiTravelClass(current_preferences.cabinClass),
                                NoOverrides)))))))))

(* The non_stop argument as a boolean: a string counts when it reads       *)
(* true, yes or 1; an absent argument is False.                            *)
NonStopArgument(non_stop) ==
  CASE non_stop.kind = "absent" -> FALSE
    [] non_stop.kind = "bool" -> non_stop.value = "True"
    [] non_stop.kind = "str" -> LowerWord(non_stop.value) \in {"true", "yes", "1"}

(* json.dumps(bool(non_stop)).lower() *)
JsonBool(b) == IF b THEN "true" ELSE "false"

(* dict.get(key, default) *)
GetOr(dict, key, default) == IF key \in DOMAIN dict THEN dict[key] ELSE default

(* search_flights: the parameters of the request for flight offers. *)
search_flights(adults, travel_class, non_stop, user_preferences) ==
  LET non_stop_only == GetOr(user_preferences, "non_stop_only", FALSE)
      preferred_cabin == GetOr(user_preferences, "preferred_cabin", None)
      cabin == IF travel_class = None /\ preferred_cabin # None THEN preferred_cabin
               ELSE travel_class
      params == [adults |-> adults, nonStop |-> JsonBool(non_stop_only \/ non_stop)]
  IN IF cabin # None THEN Put(params, "travelClass", cabin) ELSE params

(* execute_tool, search_flights: the arguments of the call with the        *)
(* overrides applied, as they reach search_flights.                        *)
execute_tool(arguments, overrides) ==
  search_flights(GetOr(overrides, "adults", arguments.adults),
                 GetOr(overrides, "travel_class", arguments.travel_class),
                 GetOr(overrides, "non_stop", NonStopArgument(arguments.non_stop)),
                 GetOr(overrides, "user_preferences", <<>>))

(***************************************************************************)
(* SpecResolve: preferences are saved, and the merged preferences are read *)
(* by a summary, by the snapshot of a chat query and by a flight search.   *)
(* The requests are handled one after another.                             *)
(***************************************************************************)

(* The most preferences of a run, memories and rows together. *)
MaxEntries == 2

(* The texts the memory service holds. *)
FuzzyTexts ==
  {<<"Cabin", "class:", "Economy">>,
   <<"I", "prefer", "Business", "class", "flights">>,
   <<"traveling", "with", "family">>,
   <<"luxury", "travel">>,
   <<"Stops:", "Layovers", "OK">>,
   <<"User", "booked", "flight", "from", "JFK", "to", "LAX">>}

Memories(texts) == [i \in DOMAIN texts |-> [id |-> 100 + i, memory |-> texts[i]]]

(* The preferences that are saved: user, type and text. *)
SavedPreferences ==
  {<<"u1", "cabin_class", <<"Cabin", "class:", "Economy">> >>,
   <<"u1", "flight_type", <<"direct", "flights">> >>,
   <<"u1", "passenger", <<"with", "partner">> >>,
   <<"u1", None, <<"solo">> >>,
   <<"u1", None, <<"light", "packer">> >>,
   <<"u2", "cabin_class", <<"I", "prefer", "First", "Class", "flights">> >>}

NoSelection == [cabinClass |-> <<>>, directFlightsOnly |-> FALSE, avoidRedEye |-> FALSE]

(* The current selections of a request. *)
UiSelections ==
  {[NoSelection EXCEPT !.cabinClass = c] :
     c \in {<<>>, <<" ">>, <<"Economy">>, <<"Premium", "Economy">>, <<"Business">>, <<"First">>}}
  \cup {[NoSelection EXCEPT !.directFlightsOnly = TRUE],
        [cabinClass |-> <<"Business">>, directFlightsOnly |-> TRUE, avoidRedEye |-> TRUE]}

Absent == [kind |-> "absent", value |-> ""]

NoArguments == [travel_class |-> None, non_stop |-> Absent, adults |-> 1]

(* The arguments of a search_flights call. *)
ToolArguments ==
  {[travel_class |-> c, non_stop |-> n, adults |-> 1] :
     c \in {None, "BUSINESS", "ECONOMY"},
     n \in {Absent, [kind |-> "bool", value |-> "True"], [kind |-> "bool", value |-> "False"]}}
  \cup {[travel_class |-> None, non_stop |-> [kind |-> "str", value |-> "Yes"], adults |-> 2]}

NoResolve == [step |-> "none", summary |-> <<>>, overrides |-> <<>>, request |-> <<>>]

InitResolve ==
  /\ fuzzy \in {Memories(texts) : texts \in UNION {[1..n -> FuzzyTexts] : n \in 0..MaxEntries}}
  /\ ui = NoSelection
  /\ args = NoArguments
  /\ resolved = NoResolve
  /\ StoreIdle /\ ConcIdle /\ CanonIdle /\ ChatIdle /\ RankIdle /\ FilterIdle /\ ToolIdle

(* A preference is saved: POST /api/memory/add-preference. *)
Remember(user_id, memory_type, content) ==
  /\ resolved.step = "none"
  /\ Len(fuzzy) + clock < MaxEntries
  /\ AddPreference(user_id, memory_type, content)

(* summarize_preferences is called for the user. *)
SummarizePreferences(include_ids) ==
  /\ resolved.step = "none"
  /\ resolved' = [NoResolve EXCEPT
                    !.step = "summary",
                    !.summary = summarize_preferences(fuzzy, prefs, ChatUser, include_ids)]
  /\ ui' = NoSelection
  /\ args' = NoArguments
  /\ UNCHANGED <<fuzzy, storeVars, concVars, canonVars, chatVars, rankVars, filterVars, toolVars>>

(* The chat query "what are my preferences": the snapshot is built. *)
BuildSnapshot ==
  /\ resolved.step = "none"
  /\ resolved' = [NoResolve EXCEPT
                    !.step = "snapshot",
                    !.summary = _build_preferences_snapshot(fuzzy, prefs, ChatUser).preferences]
  /\ ui' = NoSelection
  /\ args' = NoArguments
  /\ UNCHANGED <<fuzzy, storeVars, concVars, canonVars, chatVars, rankVars, filterVars, toolVars>>

(* The tool call search_flights: the overrides are compiled and the        *)
(* request goes to the flight search.                                      *)
SearchFlights ==
  \E prefs_summary \in {summarize_preferences(fuzzy, prefs, ChatUser, FALSE)} :
    \E current_preferences \in UiSelections :
      \E overrides \in {get_preference_overrides(prefs_summary, current_preferences)} :
        \E arguments \in ToolArguments :
          /\ resolved.step = "none"
          /\ resolved' = [step |-> "search", summary |-> prefs_summary,
                          overrides |-> overrides,
                          request |-> execute_tool(arguments, overrides)]
          /\ ui' = current_preferences
          /\ args' = arguments
          /\ UNCHANGED <<fuzzy, storeVars, concVars, canonVars, chatVars, rankVars, filterVars, toolVars>>

(* The answer of a read goes back to the caller. *)
Respond ==
  /\ resolved.step # "none"
  /\ resolved' = NoResolve
  /\ ui' = NoSelection
  /\ args' = NoArguments
  /\ UNCHANGED <<fuzzy, storeVars, concVars, canonVars, chatVars, rankVars, filterVars, toolVars>>

NextResolve ==
  \/ \E p \in SavedPreferences : Remember(p[1], p[2], p[3])
  \/ \E include_ids \in BOOLEAN : SummarizePreferences(include_ids)
  \/ BuildSnapshot
  \/ SearchFlights
  \/ Respond

SpecResolve == InitResolve /\ [][NextResolve]_vars

(* get(key), None when the key is absent. *)
Yielded(dict, key) == IF key \in DOMAIN dict THEN dict[key] ELSE None

EconomyLabel == <<"Cabin", "class:", "Economy">>

NoCabinSelected == Strip(ui.cabinClass) = <<>>

(* C3: when the current selection names a cabin (Economy, Premium Economy, *)
(* Business or First) the overrides of a search hold the travel class of   *)
(* that selection, whatever the table and the memory hold; the stored      *)
(* cabin decides only when no cabin is selected: then a summary without a  *)
(* cabin yields no travel class and "Cabin class: Economy" yields ECONOMY. *)
C3_SelectedCabinWins ==
  resolved.step = "search" =>
    LET travel_class == Yielded(resolved.overrides, "travel_class")
        stored == Get(resolved.summary, "cabin_class")
    IN /\ ui.cabinClass = <<"Economy">> => travel_class = "ECONOMY"
       /\ ui.cabinClass = <<"Premium", "Economy">> => travel_class = "PREMIUM_ECONOMY"
       /\ ui.cabinClass = <<"Business">> => travel_class = "BUSINESS"
       /\ ui.cabinClass = <<"First">> => travel_class = "FIRST"
       /\ (NoCabinSelected /\ stored = <<>>) => travel_class = None
       /\ (NoCabinSelected /\ stored = <<[text |-> EconomyLabel]>>) => travel_class = "ECONOMY"

(* Business is selected while the table holds "Cabin class: Economy". *)
C3_Witness ==
  /\ resolved.step = "search"
  /\ ui.cabinClass = <<"Business">>
  /\ \E r \in prefs : r.userId = ChatUser /\ r.prefType = "cabin_class"
                      /\ r.canonicalText = EconomyLabel
  /\ Yielded(resolved.overrides, "travel_class") = "BUSINESS"

(* C4: a travel_class and a non_stop value given in the arguments of the   *)
(* search_flights tool reach the flight search as given when the current   *)
(* selection sets none: the stored preferences never replace them.         *)
C4_ArgumentsKept ==
  resolved.step = "search" =>
    /\ (args.travel_class # None /\ NoCabinSelected)
         => Yielded(resolved.request, "travelClass") = args.travel_class
    /\ (args.non_stop.kind = "bool" /\ ~ui.directFlightsOnly)
         => resolved.request.nonStop = (IF args.non_stop.value = "True" THEN "true" ELSE "false")

(* C6: the summary and the snapshot hold at most one value for each        *)
(* exclusive category, and when the table holds a row of the category for  *)
(* the user the value is the text of the newest such row.                  *)
C6_OneValuePerCategory ==
  resolved.step \in {"summary", "snapshot"} =>
    \A t \in {"cabin_class", "departure_time", "trip_type", "passenger"} :
      LET values == Get(resolved.summary, t)
          rows == {r \in prefs : r.userId = ChatUser /\ r.prefType = t}
      IN /\ Len(values) <= 1
         /\ rows # {} =>
              /\ Len(values) = 1
              /\ \E r \in rows : /\ \A o \in rows : o.createdAt <= r.createdAt
                                 /\ values[1].text = r.canonicalText

(***************************************************************************)
(* The flight filter (amadeus_client.py).  A flight is a record            *)
(* [itineraries], an itinerary a record [segments], a segment a record     *)
(* [carrierCode, at].  A departure time is its text split at "T" and at    *)
(* the first ":", the hour as its two digits: "2025-06-01T22:30:00" is     *)
(* <<"2025-06-01", <<2, 2>>, "30:00">>, and "" is <<>>.                    *)
(***************************************************************************)

(* The items of a list. *)
Items(list) == {list[i] : i \in DOMAIN list}

(* A test of the carrier that looks at the first segment only. *)
FirstCarrierIn(f, airlines) ==
  /\ f.itineraries # <<>>
  /\ f.itineraries[1].segments # <<>>
  /\ f.itineraries[1].segments[1].carrierCode \in Items(airlines)

(* any(segment.get("carrierCode") in airlines                              *)
(*     for itinerary in f.get("itineraries", [])                           *)
(*     for segment in itinerary.get("segments", []))                       *)
CarrierIn(f, airlines) ==
  \E i \in DOMAIN f.itineraries :
    \E j \in DOMAIN f.itineraries[i].segments :
      f.itineraries[i].segments[j].carrierCode \in Items(airlines)

(* all(len(itinerary.get("segments", [])) - 1 <= max_stops ...) *)
WithinStops(f, max_stops) ==
  \A i \in DOMAIN f.itineraries : Len(f.itineraries[i].segments) - 1 <= max_stops

(* A test that takes a max_stops of 0 for one that is not set. *)
MaxStopsTruthy(user_preferences) ==
  "max_stops" \in DOMAIN user_preferences /\ user_preferences.max_stops # 0

(* user_preferences.get("max_stops") is not None *)
MaxStopsSet(user_preferences) == "max_stops" \in DOMAIN user_preferences

(* departure_time_str.split("T")[1] raises when the text holds no "T". *)
HourRaises(at) == Len(at) < 2

(* int(departure_time_str.split("T")[1].split(":")[0]) *)
HourOf(at) == 10 * at[2][1] + at[2][2]

(* Windows that take in the hour they end at. *)
InWindowInclusive(pref_lower, hour) ==
  \/ In(<<"morning">>, pref_lower) /\ 5 <= hour /\ hour <= 12
  \/ In(<<"afternoon">>, pref_lower) /\ 12 <= hour /\ hour <= 17
  \/ In(<<"evening">>, pref_lower) /\ 17 <= hour /\ hour <= 23

(* One pass of the loop over time_preferences. *)
InWindow(pref_lower, hour) ==
  \/ In(<<"morning">>, pref_lower) /\ 5 <= hour /\ hour < 12
  \/ In(<<"afternoon">>, pref_lower) /\ 12 <= hour /\ hour < 17
  \/ In(<<"evening">>, pref_lower) /\ 17 <= hour /\ hour < 23

(* The departure time of the first segment of the first itinerary, when    *)
(* the flight has one: what both tests of the hour read before the hour.   *)
HasDeparture(flight) ==
  /\ flight.itineraries # <<>>
  /\ flight.itineraries[1].segments # <<>>
  /\ flight.itineraries[1].segments[1].at # <<>>
  /\ ~HourRaises(flight.itineraries[1].segments[1].at)

DepartureHour(flight) == HourOf(flight.itineraries[1].segments[1].at)

(* _matches_departure_preferences: True when there is no hour to read. *)
_matches_departure_preferences(flight, time_preferences) ==
  IF ~HasDeparture(flight) THEN TRUE
  ELSE \E k \in DOMAIN time_preferences :
         InWindow(Lower(time_preferences[k]), DepartureHour(flight))

(* A red-eye that starts at 23. *)
LateHour(hour) == hour >= 23 \/ hour < 6

(* hour >= 22 or hour < 6 *)
RedEyeHour(hour) == hour >= 22 \/ hour < 6

(* _is_red_eye: False when there is no hour to read. *)
_is_red_eye(flight) ==
  IF ~HasDeparture(flight) THEN FALSE ELSE RedEyeHour(DepartureHour(flight))

(* Filter by avoided airlines *)
ByAvoided(filtered, avoided_airlines) ==
  LET Keep(f) == ~CarrierIn(f, avoided_airlines)
  IN IF avoided_airlines # <<>> THEN SelectSeq(filtered, Keep) ELSE filtered

(* Filter by preferred airlines (if specified) *)
ByPreferred(filtered, preferred_airlines) ==
  LET Keep(f) == CarrierIn(f, preferred_airlines)
  IN IF preferred_airlines # <<>> THEN SelectSeq(filtered, Keep) ELSE filtered

(* Filter by max stops *)
ByStops(filtered, user_preferences) ==
  LET Keep(f) == WithinStops(f, user_preferences.max_stops)
  IN IF MaxStopsSet(user_preferences) THEN SelectSeq(filtered, Keep) ELSE filtered

(* Filter by departure time preferences *)
ByDeparture(filtered, departure_times) ==
  LET Keep(f) == _matches_departure_preferences(f, departure_times)
  IN IF departure_times # <<>> THEN SelectSeq(filtered, Keep) ELSE filtered

(* Filter by red-eye avoidance *)
ByRedEye(filtered, avoid_red_eye) ==
  LET Keep(f) == ~_is_red_eye(f)
  IN IF avoid_red_eye THEN SelectSeq(filtered, Keep) ELSE filtered

(* _filter_flights_by_preferences *)
_filter_flights_by_preferences(flights, user_preferences) ==
  ByRedEye(
    ByDeparture(
      ByStops(
        ByPreferred(
          ByAvoided(flights, GetOr(user_preferences, "avoided_airlines", <<>>)),
          GetOr(user_preferences, "preferred_airlines", <<>>)),
        user_preferences),
      GetOr(user_preferences, "departure_time_preferences", <<>>)),
    GetOr(user_preferences, "avoid_red_eye", FALSE))

(***************************************************************************)
(* SpecFilter: the offers of a flight search are filtered by the           *)
(* user_preferences of the call (search_flights, amadeus_client.py).       *)
(***************************************************************************)

(* The longest list of offers. *)
MaxFlights == 2

At(hour) == <<"2025-06-01", <<hour \div 10, hour % 10>>, "30:00">>

Segment(carrier, at) == [carrierCode |-> carrier, at |-> at]

Direct(carrier, at) == [itineraries |-> <<[segments |-> <<Segment(carrier, at)>>]>>]

DeltaAt8 == Direct("DL", At(8))

UnitedAt(hour) == Direct("UA", At(hour))

(* One stop: a segment of United, then one of Delta. *)
OneStop ==
  [itineraries |-> <<[segments |-> <<Segment("UA", At(13)), Segment("DL", At(15))>>]>>]

(* A round trip whose way back departs at 23 and stops twice. *)
RoundTrip ==
  [itineraries |->
     <<[segments |-> <<Segment("AA", At(9))>>],
       [segments |-> <<Segment("AA", At(23)), Segment("DL", At(2)), Segment("AA", At(5))>>]>>]

(* Offers without an hour to read. *)
Timeless ==
  {Direct(None, <<>>), Direct("UA", <<"2025-06-01">>),
   [itineraries |-> <<>>], [itineraries |-> <<[segments |-> <<>>]>>]}

Hours == {0, 4, 5, 6, 11, 12, 16, 17, 21, 22, 23}

Flights == {UnitedAt(h) : h \in Hours} \cup {DeltaAt8, OneStop, RoundTrip} \cup Timeless

(* The user_preferences of a call: none, one field, several fields. *)
Only(key, value) == Put(<<>>, key, value)

Windows ==
  {<<<<"morning">>>>, <<<<"afternoon">>>>, <<<<"evening">>>>,
   <<<<"morning">>, <<"Evening">>>>, <<<<"departure", "time:", "evening">>>>}

AllFields ==
  [avoided_airlines |-> <<"DL">>, preferred_airlines |-> <<"UA", "AA">>, max_stops |-> 1,
   departure_time_preferences |-> <<<<"afternoon">>, <<"evening">>>>, avoid_red_eye |-> TRUE]

FilterSpecs ==
  {<<>>}
    \cup {Only("avoided_airlines", a) : a \in {<<>>, <<"DL">>}}
    \cup {Only("preferred_airlines", <<"UA">>)}
    \cup {Only("max_stops", m) : m \in {0, 1}}
    \cup {Only("departure_time_preferences", w) : w \in Windows \cup {<<>>}}
    \cup {Only("avoid_red_eye", b) : b \in BOOLEAN}
    \cup {Put(Only("avoid_red_eye", TRUE), "departure_time_preferences", <<<<"evening">>>>),
          Put(Only("avoid_red_eye", TRUE), "avoided_airlines", <<"DL">>),
          Put(Only("max_stops", 0), "preferred_airlines", <<"UA">>),
          AllFields}

InitFilter ==
  /\ fetched \in UNION {[1..n -> Flights] : n \in 0..MaxFlights}
  /\ wanted \in FilterSpecs
  /\ outcome = NoReturn
  /\ StoreIdle /\ ConcIdle /\ CanonIdle /\ ChatIdle /\ ResolveIdle /\ RankIdle /\ ToolIdle

(* search_flights with user_preferences: the offers are filtered. *)
FilterFlights ==
  /\ outcome.step = "none"
  /\ wanted # <<>>
  /\ outcome' = [step |-> "filtered", data |-> _filter_flights_by_preferences(fetched, wanted)]
  /\ UNCHANGED <<fetched, wanted, storeVars, concVars, canonVars, chatVars, resolveVars, rankVars,
               toolVars>>

(* search_flights without user_preferences: the offers are returned as     *)
(* they were found.                                                          *)
ReturnUnfiltered ==
  /\ outcome.step = "none"
  /\ wanted = <<>>
  /\ outcome' = [step |-> "unfiltered", data |-> fetched]
  /\ UNCHANGED <<fetched, wanted, storeVars, concVars, canonVars, chatVars, resolveVars, rankVars,
               toolVars>>

NextFilter == FilterFlights \/ ReturnUnfiltered

SpecFilter == InitFilter /\ [][NextFilter]_vars

(* The carrier codes of all segments of an offer. *)
Carriers(f) ==
  UNION {{f.itineraries[i].segments[j].carrierCode : j \in DOMAIN f.itineraries[i].segments} :
           i \in DOMAIN f.itineraries}

AvoidedAirlines == Items(GetOr(wanted, "avoided_airlines", <<>>))

(* C14: with avoided airlines the filter keeps no offer that has a segment *)
(* of an avoided carrier, and with no other field set it keeps all other   *)
(* offers, in the order of the input; [A(DL), B(UA)] with DL avoided gives *)
(* [B].                                                                    *)
C14_AvoidedAirlinesRemoved ==
  (outcome.step = "filtered" /\ AvoidedAirlines # {}) =>
    LET Pass(f) == Carriers(f) \cap AvoidedAirlines = {}
    IN /\ \A i \in DOMAIN outcome.data : Pass(outcome.data[i])
       /\ DOMAIN wanted = {"avoided_airlines"} => outcome.data = SelectSeq(fetched, Pass)
       /\ (fetched = <<DeltaAt8, UnitedAt(12)>> /\ wanted = Only("avoided_airlines", <<"DL">>))
            => outcome.data = <<UnitedAt(12)>>

(* An offer whose second segment is of the avoided carrier was removed,    *)
(* and the offer after it was kept.                                           *)
C14_Witness ==
  /\ outcome.step = "filtered"
  /\ wanted = Only("avoided_airlines", <<"DL">>)
  /\ fetched = <<OneStop, UnitedAt(12)>>
  /\ outcome.data = <<UnitedAt(12)>>

(* C15: the result is the list of the offers of the input, in their       *)
(* order, that pass the test of every field that is set: no segment of an  *)
(* avoided carrier, a segment of a preferred carrier, at most max_stops    *)
(* stops in every itinerary, a departure hour in a requested window, no    *)
(* red-eye departure (the two tests of the hour pass an offer that has no  *)
(* hour to read); a field that is absent or empty removes nothing, and     *)
(* when no offer passes the result is the empty list.                      *)
C15_FilterIsIntersection ==
  outcome.step \in {"filtered", "unfiltered"} =>
    LET avoided == Items(GetOr(wanted, "avoided_airlines", <<>>))
        preferred == Items(GetOr(wanted, "preferred_airlines", <<>>))
        windows == GetOr(wanted, "departure_time_preferences", <<>>)
        Pass(f) ==
          /\ avoided # {} => Carriers(f) \cap avoided = {}
          /\ preferred # {} => Carriers(f) \cap preferred # {}
          /\ "max_stops" \in DOMAIN wanted =>
               \A i \in DOMAIN f.itineraries :
                 Len(f.itineraries[i].segments) <= wanted.max_stops + 1
          /\ (windows # <<>> /\ HasDeparture(f)) =>
               \E k \in DOMAIN windows : InWindow(Lower(windows[k]), DepartureHour(f))
          /\ (GetOr(wanted, "avoid_red_eye", FALSE) /\ HasDeparture(f)) =>
               (DepartureHour(f) >= 22 \/ DepartureHour(f) < 6)  = FALSE
    IN /\ outcome.data = SelectSeq(fetched, Pass)
       /\ (\A i \in DOMAIN fetched : ~Pass(fetched[i])) => outcome.data = <<>>

(* Every field is set: the second of two offers passes all five tests and *)
(* the first has a segment of the avoided carrier.                         *)
C15_Witness ==
  /\ outcome.step = "filtered"
  /\ wanted = AllFields
  /\ fetched = <<OneStop, UnitedAt(17)>>
  /\ outcome.data = <<UnitedAt(17)>>

(* Every offer is removed: the result is the empty list. *)
C15_WitnessEmpty ==
  /\ outcome.step = "filtered"
  /\ wanted = Put(Only("max_stops", 0), "preferred_airlines", <<"UA">>)
  /\ fetched = <<OneStop, DeltaAt8>>
  /\ outcome.data = <<>>

(* The hours of the window a text of departure_time_preferences names. *)
WindowHours(pref) ==
  (IF In(<<"morning">>, Lower(pref)) THEN 5..11 ELSE {})
    \cup (IF In(<<"afternoon">>, Lower(pref)) THEN 12..16 ELSE {})
    \cup (IF In(<<"evening">>, Lower(pref)) THEN 17..22 ELSE {})

RequestedHours ==
  LET windows == GetOr(wanted, "departure_time_preferences", <<>>)
  IN UNION {WindowHours(windows[k]) : k \in DOMAIN windows}

(* C16: with departure windows, an offer whose first segment has a         *)
(* readable departure hour h is kept only when h lies in a requested       *)
(* window (morning 5..11, afternoon 12..16, evening 17..22), and with no   *)
(* other field set every such offer is kept; an offer that departs at 23   *)
(* or at 0..4 is never kept.                                               *)
C16_DepartureWindows ==
  (outcome.step = "filtered" /\ GetOr(wanted, "departure_time_preferences", <<>>) # <<>>) =>
    LET Pass(f) == HasDeparture(f) => DepartureHour(f) \in RequestedHours
    IN /\ \A i \in DOMAIN outcome.data : Pass(outcome.data[i])
       /\ DOMAIN wanted = {"departure_time_preferences"} =>
            outcome.data = SelectSeq(fetched, Pass)
       /\ \A i \in DOMAIN outcome.data :
            HasDeparture(outcome.data[i]) => DepartureHour(outcome.data[i]) \in 5..22

(* Morning and evening are requested: the offer at 23 is removed and the   *)
(* offer at 22 is kept.                                                    *)
C16_Witness ==
  /\ outcome.step = "filtered"
  /\ wanted = Only("departure_time_preferences", <<<<"morning">>, <<"Evening">>>>)
  /\ fetched = <<UnitedAt(23), UnitedAt(22)>>
  /\ outcome.data = <<UnitedAt(22)>>

(* The first segment of the offer departs at hour >= 22 or < 6. *)
DepartsAtNight(f) ==
  HasDeparture(f) /\ (DepartureHour(f) \in 22..23 \/ DepartureHour(f) \in 0..5)

(* The offer passes the tests of the fields other than avoid_red_eye. *)
PassesTheRest(f) ==
  /\ ~CarrierIn(f, GetOr(wanted, "avoided_airlines", <<>>))
  /\ GetOr(wanted, "preferred_airlines", <<>>) # <<>> =>
       CarrierIn(f, wanted.preferred_airlines)
  /\ "max_stops" \in DOMAIN wanted => WithinStops(f, wanted.max_stops)
  /\ GetOr(wanted, "departure_time_preferences", <<>>) # <<>> =>
       _matches_departure_preferences(f, wanted.departure_time_preferences)

(* C17: with avoid_red_eye the result holds no offer whose first segment   *)
(* departs at hour >= 22 or < 6, also when an evening window is requested, *)
(* and holds every other offer that the other fields let pass; without it  *)
(* an offer that departs at such an hour and passes the other fields is    *)
(* kept.                                                                   *)
C17_RedEyeDropped ==
  outcome.step = "filtered" =>
    LET Kept(f) == \E i \in DOMAIN outcome.data : outcome.data[i] = f
        Day(f) == ~DepartsAtNight(f)
    IN IF GetOr(wanted, "avoid_red_eye", FALSE)
       THEN /\ \A i \in DOMAIN outcome.data : Day(outcome.data[i])
            /\ \A i \in DOMAIN fetched :
                 (Day(fetched[i]) /\ PassesTheRest(fetched[i])) => Kept(fetched[i])
            /\ DOMAIN wanted = {"avoid_red_eye"} => outcome.data = SelectSeq(fetched, Day)
       ELSE \A i \in DOMAIN fetched :
              (DepartsAtNight(fetched[i]) /\ PassesTheRest(fetched[i])) => Kept(fetched[i])

(* An evening window and avoid_red_eye: the offer at 22 is removed, the    *)
(* offer at 21 is kept.                                                    *)
C17_Witness ==
  /\ outcome.step = "filtered"
  /\ wanted = Put(Only("avoid_red_eye", TRUE), "departure_time_preferences", <<<<"evening">>>>)
  /\ fetched = <<UnitedAt(22), UnitedAt(21)>>
  /\ outcome.data = <<UnitedAt(21)>>

(* The passenger preference of the merged preferences of a search. *)
ResolvedPassenger == Get(resolved.summary, "passenger")

IsPassenger(label) == ResolvedPassenger = <<[text |-> label]>>

(* C18: the adults of the flight search follow the passenger preference of *)
(* the merged preferences: "Travel: Solo" gives 1, "Travel: With family"   *)
(* gives 4, "Travel: With partner" gives 2, and with no passenger          *)
(* preference the adults of the arguments of the call are passed on.       *)
C18_AdultsFollowPassenger ==
  resolved.step = "search" =>
    /\ IsPassenger(<<"Travel:", "Solo">>) => resolved.request.adults = 1
    /\ IsPassenger(<<"Travel:", "With", "family">>) => resolved.request.adults = 4
    /\ IsPassenger(<<"Travel:", "With", "partner">>) => resolved.request.adults = 2
    /\ ResolvedPassenger = <<>> => resolved.request.adults = args.adults

(* The ids of the memories of the memory service. *)
FuzzyIds == {fuzzy[i].id : i \in DOMAIN fuzzy}

(* C19: an entry of the summary that comes from a memory of the memory     *)
(* service stands under a category only when the table holds no row of     *)
(* that category for the user, for the exclusive categories and for the    *)
(* others.                                                                 *)
C19_FuzzyIsFallback ==
  resolved.step = "summary" =>
    \A k \in DOMAIN resolved.summary :
      \A i \in DOMAIN resolved.summary[k] :
        LET e == resolved.summary[k][i]
        IN ("id" \in DOMAIN e /\ e.id \in FuzzyIds) =>
             ~\E r \in prefs : r.userId = ChatUser /\ r.prefType = k

(***************************************************************************)
(* SpecHistory: the memory service holds travel history next to           *)
(* preferences, and the merged preferences are read by a summary and by    *)
(* the snapshot of a chat query.                                           *)
(***************************************************************************)

(* Memories of bookings, searches and trips, each with a cabin class. *)
HistoryTexts ==
  {<<"User", "booked", "Business", "class">>,
   <<"searched", "Business", "class", "flights">>,
   <<"traveled", "Business", "class">>,
   <<"Business", "class", "JFK", "→", "LAX", "5pm">>,
   <<"Business", "class", "JFK", "→", "LAX", "USD", "420">>}

(* Memories of preferences, one of them with a route. *)
PreferenceTexts ==
  {<<"Business", "class", "JFK", "→", "LAX">>,
   <<"I", "prefer", "Business", "class", "flights">>,
   <<"Cabin", "class:", "Economy">>}

InitHistory ==
  /\ fuzzy \in {Memories(texts) :
                  texts \in UNION {[1..n -> HistoryTexts \cup PreferenceTexts] : n \in 0..MaxEntries}}
  /\ ui = NoSelection
  /\ args = NoArguments
  /\ resolved = NoResolve
  /\ StoreIdle /\ ConcIdle /\ CanonIdle /\ ChatIdle /\ RankIdle /\ FilterIdle /\ ToolIdle

NextHistory ==
  \/ \E include_ids \in BOOLEAN : SummarizePreferences(include_ids)
  \/ BuildSnapshot
  \/ Respond

SpecHistory == InitHistory /\ [][NextHistory]_vars

(* The text holds "booked", "searched" or "traveled", or a route arrow     *)
(* together with a currency or an am/pm time.                              *)
IsHistory(text) ==
  \/ \E w \in {"booked", "searched", "traveled"} : In(<<w>>, Lower(text))
  \/ /\ In(<<"→">>, Lower(text))
     /\ \/ \E c \in {"USD", "EUR", "GBP", "$"} : InCased(<<c>>, text)
        \/ \E t \in {"am", "pm"} : In(<<t>>, Lower(text))

(* C20: no entry of the summary or of the snapshot comes from a memory     *)
(* whose text holds "booked", "searched" or "traveled", or a route arrow   *)
(* with a currency or an am/pm time, whatever cabin class the memory       *)
(* names; when the memory service holds only such memories no category is  *)
(* left.                                                                   *)
C20_HistoryNeverSummarized ==
  resolved.step \in {"summary", "snapshot"} =>
    /\ \A k \in DOMAIN resolved.summary :
         \A i \in DOMAIN resolved.summary[k] :
           LET e == resolved.summary[k][i]
           IN "id" \in DOMAIN e =>
                \A m \in DOMAIN fuzzy : fuzzy[m].id = e.id => ~IsHistory(fuzzy[m].memory)
    /\ (\A m \in DOMAIN fuzzy : IsHistory(fuzzy[m].memory)) =>
         \A k \in DOMAIN resolved.summary : resolved.summary[k] = <<>>

(* A booking with an arrow and a time and a preference with an arrow: the  *)
(* summary holds the preference alone.                                     *)
C20_Witness ==
  /\ resolved.step = "summary"
  /\ fuzzy = Memories(<<<<"Business", "class", "JFK", "→", "LAX", "5pm">>,
                        <<"Business", "class", "JFK", "→", "LAX">>>>)
  /\ DOMAIN resolved.summary = {"cabin_class"}
  /\ Len(resolved.summary.cabin_class) = 1
  /\ "id" \in DOMAIN resolved.summary.cabin_class[1]
  /\ resolved.summary.cabin_class[1].id = 102

(* The categories that are not exclusive; a row without a type is read as  *)
(* "other".                                                                *)
C21_Categories == {"seat", "airline", "flight_type", "red_eye", "baggage", "budget", "other"}

(* C21: a write to a category that is not exclusive deletes no row: where  *)
(* rows are only written, the table holds as many rows of such a category  *)
(* for a user as were written for them; and the list a read gives for such *)
(* a category holds no two entries whose texts are equal when the case is  *)
(* ignored.                                                                *)
C21_Accumulate ==
  /\ \A e \in latest :
       TypeOrOther(e.prefType) \in C21_Categories =>
         Cardinality(Live(e.userId, e.prefType)) = e.writes
  /\ resolved.step \in {"summary", "snapshot", "search"} =>
       \A k \in DOMAIN resolved.summary \cap C21_Categories :
         \A i, j \in DOMAIN resolved.summary[k] :
           Lower(resolved.summary[k][i].text) = Lower(resolved.summary[k][j].text) => i = j

(* "direct flights" was saved twice: both rows are in the table and the    *)
(* summary holds the text once.                                            *)
C21_Witness ==
  /\ resolved.step = "summary"
  /\ Cardinality(Live(ChatUser, "flight_type")) = 2
  /\ \A r \in Live(ChatUser, "flight_type") : r.canonicalText = <<"Stops:", "Direct", "only">>
  /\ Len(resolved.summary.flight_type) = 1

(***************************************************************************)
(* SpecTool: the search_flights tool call of execute_tool (agent.py) after *)
(* the flight search has answered: an error is handed on, offers are       *)
(* tagged, and whatever is raised on the way is caught and handed on as an *)
(* error.  An offer whose price key is missing is a record without price;  *)
(* an itinerary whose duration key is missing is Missing.                  *)
(***************************************************************************)

(* The longest list of offers the flight search gives. *)
MaxFound == 2

(* An itinerary without the key "duration". *)
Missing == <<"KeyError">>

(* o["price"]["total"] and itin["duration"] raise KeyError when the key is *)
(* missing; tag_flight_offers catches nothing.                             *)
TagRaises(list) ==
  \E i \in DOMAIN list :
    \/ "price" \notin DOMAIN list[i]
    \/ \E k \in DOMAIN list[i].itineraries : list[i].itineraries[k] = Missing

(* A tool call that tags whatever the flight search gave. *)
ErrorIgnored(result) == FALSE

(* result.get("error") *)
HasError(result) == result.kind = "error" /\ result.error # ""

(* execute_tool, tool search_flights, from the result of the flight search *)
(* on: the error of the result, the exception of the try block, or the     *)
(* tagged flights.                                                         *)
ToolReply(result) ==
  IF result.kind = "raised"
  THEN [step |-> "error", error |-> result.error, flights |-> <<>>, tagger |-> "not run"]
  ELSE IF HasError(result)
  THEN [step |-> "error", error |-> result.error, flights |-> <<>>, tagger |-> "not run"]
  ELSE IF TagRaises(result.data)
  THEN [step |-> "error", error |-> "KeyError", flights |-> <<>>, tagger |-> "raised"]
  ELSE [step |-> "flights", error |-> "", flights |-> tag_flight_offers(result.data),
        tagger |-> "returned"]

(* Offers as the flight search gives them. *)
WellFormed ==
  [price : {300, 400}, itineraries : {<<FiveHours>>, <<TenHours>>}, tags : {<<>>}]

(* Offers without a price, without a duration, and with a duration that    *)
(* counts a day.                                                           *)
Malformed ==
  {[itineraries |-> <<FiveHours>>, tags |-> <<>>],
   [price |-> 300, itineraries |-> <<Missing>>, tags |-> <<>>],
   [price |-> 500, itineraries |-> <<ADayAndTwoHours>>, tags |-> <<>>]}

(* What the flight search gives: offers, an error with no offers, or an    *)
(* exception.                                                              *)
Upstreams ==
  {[kind |-> "data", error |-> "", data |-> list] :
     list \in UNION {[1..n -> WellFormed \cup Malformed] : n \in 0..MaxFound}}
  \cup {[kind |-> "error", error |-> e, data |-> <<>>] : e \in {"Invalid date", "HTTP 500"}}
  \cup {[kind |-> "raised", error |-> "ConnectionError", data |-> <<>>]}

InitTool ==
  /\ upstream \in Upstreams
  /\ reply = NoReply
  /\ StoreIdle /\ ConcIdle /\ CanonIdle /\ ChatIdle /\ ResolveIdle /\ RankIdle /\ FilterIdle

(* The tool call returns. *)
ExecuteTool ==
  /\ reply.step = "none"
  /\ reply' = ToolReply(upstream)
  /\ UNCHANGED <<upstream, storeVars, concVars, canonVars, chatVars, resolveVars, rankVars,
                 filterVars>>

(* The next search of the conversation. *)
SearchAgain ==
  /\ reply.step # "none"
  /\ upstream' \in Upstreams
  /\ reply' = NoReply
  /\ UNCHANGED <<storeVars, concVars, canonVars, chatVars, resolveVars, rankVars, filterVars>>

NextTool == ExecuteTool \/ SearchAgain

SpecTool == InitTool /\ [][NextTool]_vars

(* The offer lacks its price or a duration, or a duration of it is not of  *)
(* the PT#H#M form.                                                        *)
IsMalformed(o) ==
  \/ "price" \notin DOMAIN o
  \/ \E k \in DOMAIN o.itineraries :
       o.itineraries[k] = Missing \/ o.itineraries[k][1] # "PT"

IsWellFormed(o) == ~IsMalformed(o)

(* C22: the tagging never raises on an offer that lacks its price or its   *)
(* duration or whose duration is not of the PT#H#M form: such an offer     *)
(* gets none of the three tags and the other offers are tagged as if it    *)
(* were not in the list.                                                   *)
C22_MalformedLeftOut ==
  (reply.step # "none" /\ upstream.kind = "data") =>
    /\ reply.step = "flights"
    /\ Len(reply.flights) = Len(upstream.data)
    /\ \A i \in DOMAIN reply.flights :
         IsMalformed(reply.flights[i]) => reply.flights[i].tags = <<>>
    /\ SelectSeq(reply.flights, IsWellFormed)
         = tag_flight_offers(SelectSeq(upstream.data, IsWellFormed))

(* C23: when the flight search gives an error or raises, the tool returns  *)
(* the error with an empty list of flights and the tagger is not run; and  *)
(* the tagger gives the empty list back for the empty list.                *)
C23_ErrorHandedOn ==
  /\ (reply.step # "none" /\ upstream.kind \in {"error", "raised"}) =>
       /\ reply.step = "error"
       /\ reply.error = upstream.error
       /\ reply.flights = <<>>
       /\ reply.tagger = "not run"
  /\ tag_flight_offers(<<>>) = <<>>
  /\ (reply.step # "none" /\ upstream.kind = "data" /\ upstream.data = <<>>) =>
       reply.step = "flights" /\ reply.flights = <<>>

(* The flight search gave the error "HTTP 500" and the tool has returned. *)
C23_Witness ==
  /\ upstream.kind = "error" /\ upstream.error = "HTTP 500"
  /\ reply.step = "error" /\ reply.error = "HTTP 500" /\ reply.flights = <<>>

(* The only cabin the message names is "premium economy". *)
OnlyPremiumEconomy(text) ==
  /\ In(<<"premium", "economy">>, Lower(text))
  /\ \A i \in DOMAIN text :
       /\ Lower(<<text[i]>>) \notin {<<"business">>, <<"first">>}
       /\ Lower(<<text[i]>>) = <<"economy">> => (i > 1 /\ Lower(<<text[i - 1]>>) = <<"premium">>)

(* C25: when the only cabin a message names is "premium economy", then     *)
(* after its labels were written in the order of extraction the one        *)
(* cabin_class row of the user is "Cabin class: Premium Economy".          *)
C25_PremiumEconomyStays ==
  (extracted.path \in {"preference_only", "assistant"} /\ extracted.returned # <<>>
     /\ OnlyPremiumEconomy(message)) =>
    /\ Cardinality(Live(ChatUser, "cabin_class")) = 1
    /\ \A r \in Live(ChatUser, "cabin_class") :
         r.canonicalText = <<"Cabin", "class:", "Premium", "Economy">>

(***************************************************************************)
(* SpecRecall: one chat message is handled and the merged preferences are  *)
(* read, by a summary and by the snapshot of a chat query.  The memory     *)
(* service holds nothing, or the memory the chat write path adds for a     *)
(* label without a type.                                                   *)
(***************************************************************************)

LightPacker == <<"light", "packer">>

InitRecall ==
  /\ message \in Messages
  /\ extracted = NoChat
  /\ fuzzy \in {<<>>, Memories(<<<<"Travel", "Preference:">> \o LightPacker>>)}
  /\ ui = NoSelection
  /\ args = NoArguments
  /\ resolved = NoResolve
  /\ StoreIdle /\ ConcIdle /\ CanonIdle /\ RankIdle /\ FilterIdle /\ ToolIdle

(* The requests are handled one after another. *)
NextRecall ==
  \/ resolved.step = "none" /\ NextChat
  \/ \E include_ids \in BOOLEAN : SummarizePreferences(include_ids)
  \/ BuildSnapshot
  \/ Respond

SpecRecall == InitRecall /\ [][NextRecall]_vars

(* The labels of the extractor that hold no keyword of a category. *)
C24_Phrases == {LightPacker, <<"budget", "conscious">>}

(* The texts of the entries a read gives for a category. *)
Reported(k) ==
  {resolved.summary[k][i].text : i \in DOMAIN Get(resolved.summary, k)}

(* C24: a label of no category that the chat write path persists is stored *)
(* as a row without a type, and every later read gives it under "other"    *)
(* and under no exclusive category.                                        *)
C24_OtherNeverRejected ==
  /\ \A i \in DOMAIN extracted.persisted :
       extracted.persisted[i] \in C24_Phrases =>
         \E r \in prefs : /\ r.userId = ChatUser /\ r.prefType = None
                          /\ r.rawText = extracted.persisted[i]
  /\ resolved.step \in {"summary", "snapshot"} =>
       \A r \in prefs :
         (r.userId = ChatUser /\ r.rawText \in C24_Phrases) =>
           /\ r.rawText \in Reported("other")
           /\ \A k \in C1_Categories : r.rawText \notin Reported(k)

(* "light packer" was persisted without a type and a summary was read. *)
C24_Witness ==
  /\ message = LightPacker
  /\ \E r \in prefs : r.prefType = None /\ r.rawText = LightPacker
  /\ resolved.step = "summary"
  /\ LightPacker \in Reported("other")

(***************************************************************************)
(* SpecSearch: departure-time preferences are saved, and a flight search   *)
(* compiles them into user_preferences (get_preference_overrides) and      *)
(* filters the offers it finds with them (search_flights).                 *)
(***************************************************************************)

(* The departure-time preferences that are saved. *)
TimePreferences ==
  {<<"Avoid", "morning", "flights">>, <<"Avoid", "evening", "flights">>,
   <<"afternoon", "flights">>}

(* The offers a search finds: one in each window and one at night. *)
FoundFlights == {UnitedAt(h) : h \in {6, 13, 21, 23}}

InitSearch ==
  /\ fuzzy = <<>>
  /\ ui = NoSelection
  /\ args = NoArguments
  /\ resolved = NoResolve
  /\ StoreIdle /\ ConcIdle /\ CanonIdle /\ ChatIdle /\ RankIdle /\ FilterIdle /\ ToolIdle

(* The tool call search_flights, up to the offers search_flights returns. *)
SearchAndFilter ==
  \E prefs_summary \in {summarize_preferences(fuzzy, prefs, ChatUser, FALSE)} :
    \E overrides \in {get_preference_overrides(prefs_summary, NoSelection)} :
      \E list \in UNION {[1..n -> FoundFlights] : n \in 0..MaxFlights} :
        /\ resolved.step = "none"
        /\ resolved' = [step |-> "search", summary |-> prefs_summary,
                        overrides |-> overrides,
                        request |-> execute_tool(NoArguments, overrides)]
        /\ fetched' = list
        /\ wanted' = GetOr(overrides, "user_preferences", <<>>)
        /\ outcome' = IF GetOr(overrides, "user_preferences", <<>>) # <<>>
                      THEN [step |-> "filtered",
                            data |-> _filter_flights_by_preferences(
                                       list, GetOr(overrides, "user_preferences", <<>>))]
                      ELSE [step |-> "unfiltered", data |-> list]
        /\ UNCHANGED <<fuzzy, ui, args, storeVars, concVars, canonVars, chatVars, rankVars,
                       toolVars>>

(* The offers go back to the caller. *)
Deliver ==
  /\ resolved.step = "search"
  /\ resolved' = NoResolve
  /\ fetched' = <<>>
  /\ wanted' = <<>>
  /\ outcome' = NoReturn
  /\ UNCHANGED <<fuzzy, ui, args, storeVars, concVars, canonVars, chatVars, rankVars, toolVars>>

NextSearch ==
  \/ \E c \in TimePreferences : Remember(ChatUser, "departure_time", c)
  \/ SearchAndFilter
  \/ Deliver

SpecSearch == InitSearch /\ [][NextSearch]_vars

(* The hours of a bucket. *)
BucketHours(bucket) ==
  IF bucket = "morning" THEN 5..11 ELSE IF bucket = "afternoon" THEN 12..16 ELSE 17..22

(* The departure-time preference of the merged preferences avoids the bucket. *)
Avoids(bucket) ==
  \E i \in DOMAIN Get(resolved.summary, "departure_time") :
    Lower(resolved.summary.departure_time[i].text) = <<"departure", "time:", "avoid", bucket>>

(* C26: when the departure-time preference of the user avoids a bucket,    *)
(* the offers a flight search returns hold none whose first segment        *)
(* departs in the hours of that bucket, and every offer that departs       *)
(* outside them is returned.                                               *)
C26_AvoidedBucketRemoved ==
  resolved.step = "search" =>
    \A bucket \in {"morning", "afternoon", "evening"} :
      Avoids(bucket) =>
        /\ \A i \in DOMAIN outcome.data :
             DepartureHour(outcome.data[i]) \notin BucketHours(bucket)
        /\ \A i \in DOMAIN fetched :
             DepartureHour(fetched[i]) \notin BucketHours(bucket) =>
               \E j \in DOMAIN outcome.data : outcome.data[j] = fetched[i]

(***************************************************************************)
(* Preference-only messages.                                               *)
(***************************************************************************)

SearchVerbs == {"find", "search", "show", "book", "get", "lookup", "pullup"}

(* A search verb stands in the message as a word of its own. *)
NamesASearchVerb(text) ==
  LET t == Lower(text)
  IN \/ \E i \in DOMAIN t : t[i] \in SearchVerbs
     \/ \E i \in DOMAIN t : /\ i + 1 \in DOMAIN t
                            /\ t[i] \in {"look", "pull"}
                            /\ t[i + 1] = "up"

(* The word "from" stands before a later word "to". *)
NamesARoute(text) ==
  LET t == Lower(text)
  IN \E i \in DOMAIN t : \E j \in DOMAIN t : i < j /\ t[i] = "from" /\ t[j] = "to"

PreferenceOnly(text) ==
  /\ extract_preferences_from_message(text) # <<>>
  /\ ~NamesASearchVerb(text)
  /\ ~NamesARoute(text)

(* C27: a message that process_message has taken, from which the extractor *)
(* yields a label and which holds neither a search verb nor a from ... to  *)
(* route, is answered by the early return: the extracted labels come back  *)
(* and the assistant, with its search tool, is not entered.                *)
C27_PreferenceOnlyNoSearch ==
  (extracted.path \in {"preference_only", "assistant"} /\ PreferenceOnly(message))
    => /\ extracted.path = "preference_only"
       /\ extracted.returned = extract_preferences_from_message(message)

C27_Witness ==
  /\ extracted.path = "preference_only"
  /\ message = <<"i", "hate", "morning", "flights">>
  /\ extracted.returned = <<AvoidMorning>>

(***************************************************************************)
(* The store, user by user.                                                *)
(***************************************************************************)

RowsOfOthers(rows, user_id) == {r \in rows : r.userId # user_id}

StoreWrites ==
  {"add_preference", "add_rejected", "delete_preference", "clear_all",
   "delete_all_conversations"}

(* C28: a step of add_preference (its exclusive-type delete included), of  *)
(* delete_preference or of the clear-all command done for a user leaves    *)
(* the rows of every other user as they were: none added, removed or       *)
(* changed.                                                                *)
C28_Isolated ==
  [][op'.name \in StoreWrites
       => RowsOfOthers(prefs', op'.userId) = RowsOfOthers(prefs, op'.userId)]_vars

(* u1 replaced its cabin class while u2 holds a cabin class of its own. *)
C28_Witness ==
  /\ op.name = "add_preference" /\ op.userId = "u1" /\ op.type = "cabin_class"
  /\ \E r \in prefs : r.userId = "u1" /\ r.prefType = "cabin_class"
  /\ \E r \in prefs : r.userId = "u2" /\ r.prefType = "cabin_class"

(* u1 cleared its rows while u2 holds one. *)
C28_WitnessClear ==
  /\ op.name = "clear_all" /\ op.userId = "u1" /\ op.deleted > 0
  /\ RowsOfOthers(prefs, "u1") # {}

(***************************************************************************)
(* Clearing the preferences of a user.  The store holds the preferences    *)
(* table and the bookings table; add_preference is called with a canonical *)
(* text or without one (canonical_text = None).  Of a booking row the      *)
(* columns add_booking stores as given are kept (cabinClass, currency),    *)
(* with the owner and the id.                                              *)
(***************************************************************************)

(* The most rows of the bookings table. *)
MaxBookings == 2

BookingInputs == [cabin_class : {"ECONOMY"}, currency : {"USD"}]

(* add_booking: the row inserted. *)
add_booking(rows, user_id, booking, booking_id) ==
  rows \cup {[id |-> booking_id, userId |-> user_id,
              cabinClass |-> booking.cabin_class, currency |-> booking.currency]}

AddBooking(user_id, booking) ==
  /\ Cardinality(bookings) < MaxBookings
  /\ bookings' = add_booking(bookings, user_id, booking, Cardinality(bookings) + 1)
  /\ op' = Op("add_booking", user_id, None, prefs, prefs)
  /\ UNCHANGED <<prefs, clock, latest, concVars, canonVars, chatVars, resolveVars,
                 rankVars, filterVars, toolVars>>

(* storage.add_preference(user_id, pref_type, raw_text): no canonical text. *)
AddRawPreference(user_id, pref_type, raw_text) ==
  /\ clock < MaxWrites
  /\ ~AddRejected(raw_text)
  /\ LET now == clock + 1
         rows == add_preference(prefs, user_id, pref_type, raw_text, <<>>, now)
     IN /\ prefs' = rows
        /\ clock' = now
        /\ latest' = Written(latest, user_id, _clean_type(pref_type), now)
        /\ op' = Op("add_preference", user_id, _clean_type(pref_type), prefs, rows)
  /\ UNCHANGED <<bookings, concVars, canonVars, chatVars, resolveVars, rankVars, filterVars,
                 toolVars>>

ClearTypes == {"cabin_class", "baggage"}

ClearTexts == {<<"solo">>, <<"light", "packer">>}

NextClear ==
  \/ \E u \in Users, t \in ClearTypes, c \in ClearTexts : AddPreference(u, t, c)
  \/ \E u \in Users, t \in ClearTypes, c \in ClearTexts : AddRawPreference(u, t, c)
  \/ \E u \in Users, b \in BookingInputs : AddBooking(u, b)
  \/ \E u \in Users, n \in {"clear_all", "delete_all_conversations"} : ClearAll(u, n)

SpecClear == Init /\ [][NextClear]_vars

OfUser(rows, user_id) == {r \in rows : r.userId = user_id}

ClearCommands == {"clear_all", "delete_all_conversations"}

(* C29: a step of the clear-all command for a user leaves no row of the    *)
(* preferences table for that user, whatever rows it held (of any types,   *)
(* with or without canonical text), and leaves the user's rows of the      *)
(* bookings table exactly as they were.                                    *)
C29_ClearAllClears ==
  [][op'.name \in ClearCommands
       => /\ OfUser(prefs', op'.userId) = {}
          /\ OfUser(bookings', op'.userId) = OfUser(bookings, op'.userId)]_vars

(* Two rows of u1 were cleared by one command and the booking of u1 is      *)
(* still there.                                                            *)
C29_Witness ==
  /\ op.name = "clear_all" /\ op.userId = "u1" /\ op.deleted = 2
  /\ OfUser(prefs, "u1") = {}
  /\ OfUser(bookings, "u1") # {}

(***************************************************************************)
(* Rejected store operations.                                              *)
(***************************************************************************)

IsError(result, text) == "error" \in DOMAIN result /\ result.error = text

(* No row of the user carries the text, raw or canonical. *)
NoRowCarries(user_id, text) ==
  \A r \in prefs : r.userId = user_id => (r.rawText # text /\ r.canonicalText # text)

(* C30: at every store the handlers reach, add_preference with a text that *)
(* is empty or blank returns the error "Preference text is required" and   *)
(* leaves the table as it is, the user's row of the named exclusive type   *)
(* included; delete_preference with a text that no row of the user carries *)
(* returns "Preference not found" and leaves the table as it is.           *)
C30_RejectedChangesNothing ==
  /\ \A u \in Users, t \in RequestTypes, c \in RequestTexts :
       Strip(c) = <<>>
         => /\ add_preference(prefs, u, t, c, CanonicalOf[c], clock + 1) = prefs
            /\ IsError(add_preference_result(u, t, c, CanonicalOf[c], clock + 1),
                       "Preference text is required")
  /\ \A u \in Users, c \in DeleteTexts :
       (Strip(c) # <<>> /\ NoRowCarries(u, Strip(c)))
         => /\ delete_preference(prefs, u, c) = prefs
            /\ IsError(delete_preference_result(prefs, u, c), "Preference not found")
  /\ op.name = "add_rejected" => op.deleted = 0

(* A blank cabin class was refused for u1 and the cabin class u1 had saved *)
(* is still there; u1 has no row that carries "luxury travel".             *)
C30_Witness ==
  /\ op.name = "add_rejected" /\ op.userId = "u1" /\ op.type = "cabin_class"
  /\ \E r \in prefs : r.userId = "u1" /\ r.prefType = "cabin_class"
  /\ NoRowCarries("u1", <<"luxury", "travel">>)

====
